---------------------------- MODULE Spec2Model ----------------------------
(***************************************************************************)
(* A model of the sim-exchange core: the time-priority queue               *)
(* (kernel/PriorityQueue.ts), the order book (orderbook/OrderBook.ts),     *)
(* the exchange agent (agents/ExchangeAgent.ts), the latency model         *)
(* (kernel/LatencyModel.ts) and the kernel (kernel/Kernel.ts).             *)
(*                                                                         *)
(* Sequences are 1-based here and 0-based in the source: heap index i of   *)
(* the source is index i+1 of the model, so the parent of model index i is *)
(* i \div 2 and its children are 2i and 2i+1.                              *)
(***************************************************************************)
EXTENDS Integers, Sequences, FiniteSets, TLC

VARIABLES
  heap,      \* PriorityQueue.heap (the kernel's q): a sequence of messages
  nextMid,   \* ghost: number of messages pushed so far; stamps each message
  popped,    \* ghost: <<m>> when the last step was a pop returning m, else <<>>
  pushes,    \* ghost: number of push calls so far
  pops,      \* ghost: number of pop calls that returned a message
  bids,      \* OrderBook.bids
  asks,      \* OrderBook.asks
  last,      \* OrderBook.last: <<>> for null, <<p>> for price p
  result,    \* ghost: the last OrderBook call and what it returned
  timeNs,    \* Kernel.timeNs, the virtual clock
  timer,     \* Kernel.timer: 0 for undefined, else the handle of an interval
  timers,    \* the handles of the intervals that are running
  pc,        \* "idle" between ticks, "tick" inside the loop of Kernel.tick
  out,       \* ghost: what the last step pushed on the queue and emitted on
             \* the bus, in the order it did so
  handled,   \* ghost: <<m>> when the last step delivered message m, else <<>>
  maxAt,     \* ghost: <<t>>, the largest at delivered before the last delivery
  logCount,  \* ghost: per message mid, the ORDER_LOG bus events emitted for it
  sends,     \* ghost: Kernel.send calls made by the trading agents
  wakes,     \* ghost: Kernel.wakeup calls made so far
  starts     \* ghost: Kernel.start calls made so far

pqVars == <<popped, pushes, pops>>
queueVars == <<heap, nextMid>>
bookVars == <<bids, asks, last>>
kernelVars ==
  <<timeNs, timer, timers, pc, out, handled, maxAt, logCount, sends, wakes,
    starts>>

vars ==
  <<heap, nextMid, popped, pushes, pops, bids, asks, last, result, timeNs,
    timer, timers, pc, out, handled, maxAt, logCount, sends, wakes, starts>>

-----------------------------------------------------------------------------
(* Bounds of the model *)

MaxQueue == 4      \* messages held by the queue at once (queue specification)
MaxPush == 6       \* push calls in one run of the queue specification
MaxAt == 3         \* distinct delivery times pushed in the queue specification
MaxBook == 2       \* resident orders in the book at once (book specification)
MaxPrice == 2      \* prices are 1..MaxPrice
MaxQty == 2        \* quantities are 1..MaxQty
MaxTs == 2         \* priority timestamps are 1..MaxTs (book specification)
MaxSends == 2      \* messages the trading agents send in one run
MaxWakes == 2      \* wake-ups the wakeup handlers request in one run
MaxLifeStarts == 2 \* calls of start (life-cycle specification)
MaxStarts == 1     \* Kernel.start calls in one run
MaxTicks == 4      \* ticks after a start
MaxDepth == 2      \* levels asked of a snapshot (book specification)
MaxMs == 2         \* milliseconds of a latency parameter (latency specification)

Sides == {"BUY", "SELL"}
OrderIds == {"o1", "o2"}
Traders == {1, 2}
\* the agent that issues each order id (agents prefix the ids they generate)
ownerOf(id) == IF id = "o1" THEN 1 ELSE 2
SYMBOL == "SIM"

-----------------------------------------------------------------------------
(* kernel/PriorityQueue.ts *)

Swap(h, i, j) == [h EXCEPT ![i] = h[j], ![j] = h[i]]

RECURSIVE bubbleUp(_, _)
bubbleUp(h, idx) ==
  IF idx <= 1 THEN h
  ELSE LET parentIdx == idx \div 2
       IN IF h[idx].at >= h[parentIdx].at THEN h
          ELSE bubbleUp(Swap(h, idx, parentIdx), parentIdx)

\* (mutant) only the left child is compared with the parent
RECURSIVE bubbleDownLeft(_, _)
bubbleDownLeft(h, idx) ==
  LET leftIdx == 2 * idx
      smallest == IF leftIdx <= Len(h) /\ h[leftIdx].at < h[idx].at
                    THEN leftIdx ELSE idx
  IN IF smallest = idx THEN h
     ELSE bubbleDownLeft(Swap(h, idx, smallest), smallest)

RECURSIVE bubbleDown(_, _)
bubbleDown(h, idx) ==
  LET len == Len(h)
      leftIdx == 2 * idx
      rightIdx == 2 * idx + 1
      s1 == IF leftIdx <= len /\ h[leftIdx].at < h[idx].at THEN leftIdx ELSE idx
      smallest == IF rightIdx <= len /\ h[rightIdx].at < h[s1].at THEN rightIdx ELSE s1
  IN IF smallest = idx THEN h
     ELSE bubbleDown(Swap(h, idx, smallest), smallest)

push(h, x) == bubbleUp(Append(h, x), Len(h) + 1)

\* pop returns the pair <<returned, heap'>>; returned is <<>> for undefined
pop(h) ==
  IF Len(h) = 0 THEN <<<<>>, h>>
  ELSE IF Len(h) = 1 THEN <<<<h[1]>>, <<>>>>
  ELSE LET root == h[1]
           moved == [SubSeq(h, 1, Len(h) - 1) EXCEPT ![1] = h[Len(h)]]
       IN <<<<root>>, bubbleDown(moved, 1)>>

peek(h) == IF Len(h) = 0 THEN <<>> ELSE <<h[1]>>

length(h) == Len(h)

-----------------------------------------------------------------------------
(* orderbook/OrderBook.ts *)

\* A LimitOrder (util/types.ts) is a record
\*   [id, agent, symbol, side, price, qty, ts].
\* A book is [bids, asks, last]; last is <<>> for null and <<p>> for price p.

\* (mutant) the bids are compared by price alone
bidBeforeByPrice(a, b) == a.price > b.price

\* comparators of sortBooks: TRUE when a must come strictly before b
bidBefore(a, b) == a.price > b.price \/ (a.price = b.price /\ a.ts < b.ts)
askBefore(a, b) == a.price < b.price \/ (a.price = b.price /\ a.ts < b.ts)

\* Array.prototype.sort is stable: an element is placed before the first
\* element it must strictly precede, after every element it ties with.
\* the comparator sortBooks gives the bids (bidSide) or the asks
before(bidSide, a, b) == IF bidSide THEN bidBefore(a, b) ELSE askBefore(a, b)

RECURSIVE insertStable(_, _, _)
insertStable(sorted, x, bidSide) ==
  IF sorted = <<>> THEN <<x>>
  ELSE IF before(bidSide, x, Head(sorted)) THEN <<x>> \o sorted
  ELSE <<Head(sorted)>> \o insertStable(Tail(sorted), x, bidSide)

RECURSIVE sortStable(_, _)
sortStable(arr, bidSide) ==
  IF arr = <<>> THEN <<>>
  ELSE insertStable(sortStable(SubSeq(arr, 1, Len(arr) - 1), bidSide),
                    arr[Len(arr)], bidSide)

sortBids(arr) == sortStable(arr, TRUE)
sortAsks(arr) == sortStable(arr, FALSE)

Min(a, b) == IF a <= b THEN a ELSE b
Max(a, b) == IF a >= b THEN a ELSE b

\* (mutant) the resting-side price whatever the timestamps
matchPriceOfAsk(bid, ask) == ask.price

\* the price match gives an execution of bid against ask
matchPrice(bid, ask) == IF bid.ts <= ask.ts THEN bid.price ELSE ask.price

\* the maker and taker match names in an execution of bid against ask
matchMaker(bid, ask) == ask.agent
matchTaker(bid, ask) == bid.agent

\* (mutant) an execution takes its quantity from the bid alone
RECURSIVE matchBidOnly(_)
matchBidOnly(acc) ==
  IF acc.bids = <<>> \/ acc.asks = <<>> THEN acc
  ELSE LET bid == acc.bids[1]
           ask == acc.asks[1]
       IN IF bid.price < ask.price THEN acc
          ELSE LET price == matchPrice(bid, ask)
                   qty == Min(bid.qty, ask.qty)
                   bid2 == [bid EXCEPT !.qty = bid.qty - qty]
                   e == [price |-> price, qty |-> qty,
                         maker |-> matchMaker(bid, ask),
                         taker |-> matchTaker(bid, ask),
                         makerOrderId |-> ask.id, takerOrderId |-> bid.id]
               IN matchBidOnly(
                    [bids |-> IF bid2.qty = 0 THEN Tail(acc.bids)
                              ELSE <<bid2>> \o Tail(acc.bids),
                     asks |-> acc.asks,
                     last |-> <<price>>,
                     execs |-> Append(acc.execs, e),
                     tops |-> Append(acc.tops, [bid |-> bid, ask |-> ask])])

\* match: the loop of OrderBook.match. acc is [bids, asks, last, execs, tops];
\* tops (ghost) keeps, per execution, the two top orders as they were matched.
RECURSIVE match(_)
match(acc) ==
  IF acc.bids = <<>> \/ acc.asks = <<>> THEN acc
  ELSE LET bid == acc.bids[1]
           ask == acc.asks[1]
       IN IF bid.price < ask.price THEN acc
          ELSE LET price == matchPrice(bid, ask)
                   qty == Min(bid.qty, ask.qty)
                   bid2 == [bid EXCEPT !.qty = bid.qty - qty]
                   ask2 == [ask EXCEPT !.qty = ask.qty - qty]
                   e == [price |-> price, qty |-> qty,
                         maker |-> matchMaker(bid, ask),
                         taker |-> matchTaker(bid, ask),
                         makerOrderId |-> ask.id, takerOrderId |-> bid.id]
               IN match([bids |-> IF bid2.qty = 0 THEN Tail(acc.bids)
                                  ELSE <<bid2>> \o Tail(acc.bids),
                         asks |-> IF ask2.qty = 0 THEN Tail(acc.asks)
                                  ELSE <<ask2>> \o Tail(acc.asks),
                         last |-> <<price>>,
                         execs |-> Append(acc.execs, e),
                         tops |-> Append(acc.tops, [bid |-> bid, ask |-> ask])])

\* placeLimit(o): push on the side's array, sortBooks, match
placeLimit(B, o) ==
  LET b1 == IF o.side = "BUY" THEN Append(B.bids, o) ELSE B.bids
      a1 == IF o.side = "BUY" THEN B.asks ELSE Append(B.asks, o)
  IN match([bids |-> sortBids(b1), asks |-> sortAsks(a1), last |-> B.last,
            execs |-> <<>>, tops |-> <<>>])

\* (mutant) the whole top order is taken, whatever remains to fill
RECURSIVE sweepWholeTop(_)
sweepWholeTop(acc) ==
  IF ~(acc.remain > 0) \/ acc.book = <<>> THEN acc
  ELSE LET top == acc.book[1]
           take == top.qty
           top2 == [top EXCEPT !.qty = top.qty - take]
       IN sweepWholeTop(
            [book |-> IF top2.qty = 0 THEN Tail(acc.book)
                      ELSE <<top2>> \o Tail(acc.book),
             remain |-> acc.remain - take,
             last |-> <<top.price>>,
             execs |-> Append(acc.execs,
                         [price |-> top.price, qty |-> take,
                          maker |-> top.agent, makerOrderId |-> top.id])])

\* the loop of placeMarket over the opposite side; acc is
\* [book, remain, last, execs]
RECURSIVE sweep(_)
sweep(acc) ==
  IF ~(acc.remain > 0) \/ acc.book = <<>> THEN acc
  ELSE LET top == acc.book[1]
           take == Min(acc.remain, top.qty)
           top2 == [top EXCEPT !.qty = top.qty - take]
       IN sweep([book |-> IF top2.qty = 0 THEN Tail(acc.book)
                          ELSE <<top2>> \o Tail(acc.book),
                 remain |-> acc.remain - take,
                 last |-> <<top.price>>,
                 execs |-> Append(acc.execs,
                             [price |-> top.price, qty |-> take,
                              maker |-> top.agent, makerOrderId |-> top.id])])

\* placeMarket(agent, side, qty, ts): returns the new book with filled, execs
placeMarket(B, agent, side, qty, ts) ==
  LET r == sweep([book |-> IF side = "BUY" THEN B.asks ELSE B.bids,
                  remain |-> qty, last |-> B.last, execs |-> <<>>])
  IN [bids |-> IF side = "BUY" THEN B.bids ELSE r.book,
      asks |-> IF side = "BUY" THEN r.book ELSE B.asks,
      last |-> r.last,
      filled |-> qty - r.remain,
      execs |-> r.execs]

\* Array.prototype.findIndex on the id: 0 when absent (-1 in the source)
RECURSIVE findIndexFrom(_, _, _)
findIndexFrom(arr, orderId, i) ==
  IF i > Len(arr) THEN 0
  ELSE IF arr[i].id = orderId THEN i
  ELSE findIndexFrom(arr, orderId, i + 1)

findIndex(arr, orderId) == findIndexFrom(arr, orderId, 1)

\* (mutant) arr.splice(i): everything from i on is removed
spliceToEnd(arr, i) == SubSeq(arr, 1, i - 1)

\* arr.splice(i, 1)
splice(arr, i) == SubSeq(arr, 1, i - 1) \o SubSeq(arr, i + 1, Len(arr))

\* cancel(orderId): the bids are searched first, then the asks
\* (mutant) cancel reports the order it found and leaves it in the book
cancelKeepsOrder(B, orderId) ==
  LET ib == findIndex(B.bids, orderId)
      ia == findIndex(B.asks, orderId)
  IN IF ib > 0
       THEN [bids |-> B.bids, asks |-> B.asks, last |-> B.last,
             ok |-> TRUE, removed |-> <<B.bids[ib]>>]
     ELSE IF ia > 0
       THEN [bids |-> B.bids, asks |-> B.asks, last |-> B.last,
             ok |-> TRUE, removed |-> <<B.asks[ia]>>]
     ELSE [bids |-> B.bids, asks |-> B.asks, last |-> B.last,
           ok |-> FALSE, removed |-> <<>>]

cancel(B, orderId) ==
  LET ib == findIndex(B.bids, orderId)
      ia == findIndex(B.asks, orderId)
  IN IF ib > 0
       THEN [bids |-> splice(B.bids, ib), asks |-> B.asks, last |-> B.last,
             ok |-> TRUE, removed |-> <<B.bids[ib]>>]
     ELSE IF ia > 0
       THEN [bids |-> B.bids, asks |-> splice(B.asks, ia), last |-> B.last,
             ok |-> TRUE, removed |-> <<B.asks[ia]>>]
     ELSE [bids |-> B.bids, asks |-> B.asks, last |-> B.last,
           ok |-> FALSE, removed |-> <<>>]

\* (mutant) any patch that gives a price resets the ts
priceChangedIfGiven(order, patch) == "price" \in DOMAIN patch

\* whether modify resets the order's ts: the price is given and differs
priceChanged(order, patch) ==
  "price" \in DOMAIN patch /\ patch.price # order.price

\* (mutant) a quantity of 0 is stored instead of removing the order
modifyKeepsEmpty(B, orderId, patch, nowTs) ==
  LET idxB == findIndex(B.bids, orderId)
      idxA == IF idxB = 0 THEN findIndex(B.asks, orderId) ELSE 0
      inBids == idxB > 0
      arr == IF inBids THEN B.bids ELSE B.asks
      i == IF inBids THEN idxB ELSE idxA
  IN IF i = 0
       THEN [bids |-> B.bids, asks |-> B.asks, last |-> B.last,
             ok |-> FALSE, order |-> <<>>]
     ELSE
       LET order == arr[i]
           changed == priceChanged(order, patch)
           o1 == IF "qty" \in DOMAIN patch
                   THEN [order EXCEPT !.qty = Max(0, patch.qty)] ELSE order
           o2 == IF "price" \in DOMAIN patch
                   THEN [o1 EXCEPT !.price = patch.price] ELSE o1
           o3 == IF changed THEN [o2 EXCEPT !.ts = nowTs] ELSE o2
           arr2 == [arr EXCEPT ![i] = o3]
       IN [bids |-> sortBids(IF inBids THEN arr2 ELSE B.bids),
           asks |-> sortAsks(IF inBids THEN B.asks ELSE arr2),
           last |-> B.last, ok |-> TRUE, order |-> <<o3>>]

\* modify(orderId, patch, nowTs); patch is a record over a subset of
\* {price, qty}; order is <<>> when the order was removed or is unknown
modify(B, orderId, patch, nowTs) ==
  LET idxB == findIndex(B.bids, orderId)
      idxA == IF idxB = 0 THEN findIndex(B.asks, orderId) ELSE 0
      inBids == idxB > 0
      arr == IF inBids THEN B.bids ELSE B.asks
      i == IF inBids THEN idxB ELSE idxA
  IN IF i = 0
       THEN [bids |-> B.bids, asks |-> B.asks, last |-> B.last,
             ok |-> FALSE, order |-> <<>>]
     ELSE
       LET order == arr[i]
           changed == priceChanged(order, patch)
           o1 == IF "qty" \in DOMAIN patch
                   THEN [order EXCEPT !.qty = Max(0, patch.qty)] ELSE order
       IN IF "qty" \in DOMAIN patch /\ o1.qty = 0
            THEN [bids |-> IF inBids THEN splice(arr, i) ELSE B.bids,
                  asks |-> IF inBids THEN B.asks ELSE splice(arr, i),
                  last |-> B.last, ok |-> TRUE, order |-> <<>>]
          ELSE
            LET o2 == IF "price" \in DOMAIN patch
                        THEN [o1 EXCEPT !.price = patch.price] ELSE o1
                o3 == IF changed THEN [o2 EXCEPT !.ts = nowTs] ELSE o2
                arr2 == [arr EXCEPT ![i] = o3]
            IN [bids |-> sortBids(IF inBids THEN arr2 ELSE B.bids),
                asks |-> sortAsks(IF inBids THEN B.asks ELSE arr2),
                last |-> B.last, ok |-> TRUE, order |-> <<o3>>]

\* (mutant) a level keeps the quantity of one order at its price
sumQtyAtLast(side, p) ==
  LET idx == {i \in 1..Len(side) : side[i].price = p}
  IN side[CHOOSE i \in idx : \A j \in idx : j <= i].qty

\* snapshot(depth): per side, one [price, total qty] level per distinct
\* price, sorted by price, cut to depth
sumQtyAt(side, p) ==
  LET idx == {i \in 1..Len(side) : side[i].price = p}
      RECURSIVE sum(_)
      sum(S) == IF S = {} THEN 0
                ELSE LET i == CHOOSE j \in S : TRUE
                     IN side[i].qty + sum(S \ {i})
  IN sum(idx)

RECURSIVE levelsOf(_, _, _)
levelsOf(side, prices, asc) ==
  IF prices = {} THEN <<>>
  ELSE LET p == IF asc THEN CHOOSE x \in prices : \A y \in prices : x <= y
                ELSE CHOOSE x \in prices : \A y \in prices : x >= y
       IN <<<<p, sumQtyAt(side, p)>>>> \o levelsOf(side, prices \ {p}, asc)

\* arr.slice(0, end): a negative end counts from the end of the array
slice0(arr, end) ==
  SubSeq(arr, 1, IF end < 0 THEN Max(Len(arr) + end, 0)
                 ELSE Min(end, Len(arr)))

agg(side, asc, depth) ==
  slice0(levelsOf(side, {side[i].price : i \in 1..Len(side)}, asc), depth)

snapshot(B, depth) ==
  [bids |-> agg(B.bids, FALSE, depth), asks |-> agg(B.asks, TRUE, depth),
   last |-> B.last]

-----------------------------------------------------------------------------
(* kernel/LatencyModel.ts: TwoStageRpcLatency as run.ts configures it *)

NS_PER_MS == 1000000
rpcUpMs == 200
rpcDownMs == 200
computeMs == 300
downJitterMs == 0
wallTickMs == 200

\* the agents in the order they are registered (run.ts): the exchange first
exchangeId == 0
agents == <<0, 1, 2>>
\* the first id no agent is registered with
UnknownId == Len(agents)

ms(x) == x * NS_PER_MS

\* the latency run.ts constructs: a TwoStageRpcLatency is the record L of
\* its four constructor arguments
runLatency ==
  [rpcUpMs |-> rpcUpMs, rpcDownMs |-> rpcDownMs, computeMs |-> computeMs,
   downJitterMs |-> downJitterMs]

\* jitter() of the latency L: 0 unless downJitterMs > 0; r is Math.round of
\* the draw (rnd() * 2 - 1) * downJitterMs
jitterMs(L, r) == IF L.downJitterMs <= 0 THEN 0 ELSE r

\* delayNs(from, to) of the latency L, with r as in jitterMs
delayNsOf(L, from, to, r) ==
  IF to = exchangeId /\ from # exchangeId THEN ms(L.rpcUpMs)
  ELSE IF from = exchangeId /\ to # exchangeId
    THEN ms(L.rpcDownMs + jitterMs(L, r))
  ELSE ms(L.rpcUpMs)

jitter(r) == jitterMs(runLatency, r)

\* delayNs(from, to); run.ts leaves downJitterMs at 0, so no draw is made
latencyDelayNs(from, to) == delayNsOf(runLatency, from, to, jitter(0))

\* (mutant) no compute stage
computeNsNone(agentId) == 0

computeNs(agentId) == ms(computeMs)

-----------------------------------------------------------------------------
(* kernel/Kernel.ts *)

\* A message is [from, to, type, body, at] with the ghost fields mid (its
\* push number), cause (the mid of the message whose handler sent it, -1
\* outside a handler) and sent (the clock when it was pushed).  A step
\* threads the context
\*   c = [heap, nextMid, out, cause, now]
\* through the kernel calls it makes.

OrderTypes == {"LIMIT_ORDER", "MARKET_ORDER", "CANCEL_ORDER", "MODIFY_ORDER"}
ResponseTypes ==
  {"ORDER_ACCEPTED", "ORDER_EXECUTED", "ORDER_CANCELLED", "ORDER_REJECTED"}

qpush(c, m) ==
  LET mm == [from |-> m.from, to |-> m.to, type |-> m.type, body |-> m.body,
             at |-> m.at, mid |-> c.nextMid, cause |-> c.cause,
             sent |-> c.now]
  IN [c EXCEPT !.heap = push(c.heap, mm), !.nextMid = c.nextMid + 1,
               !.out = Append(c.out, [k |-> "push", m |-> mm])]

\* emit(ev): every listener of ev.type is called, synchronously
emit(c, ev) == [c EXCEPT !.out = Append(c.out, [k |-> "emit", ev |-> ev])]

\* (mutant) only new orders are logged, not cancels and modifies
sendLogsNewOrders(type) == type \in {"LIMIT_ORDER", "MARKET_ORDER"}

\* (mutant) a CANCEL_ORDER is not logged when it is sent
sendLogsButCancel(type) == type \in OrderTypes \ {"CANCEL_ORDER"}

\* whether send logs a message of this type on the bus
sendLogs(type) == type \in OrderTypes

\* send(from, to, type, body, delayNs)
send(c, from, to, type, body, delayNs) ==
  LET compute == IF to = exchangeId /\ from # exchangeId
                   THEN computeNs(to) ELSE 0
      net == latencyDelayNs(from, to)
      c1 == qpush(c, [from |-> from, to |-> to, type |-> type, body |-> body,
                      at |-> c.now + net + compute + delayNs])
  IN IF sendLogs(type)
       THEN emit(c1, [type |-> "ORDER_LOG", ts |-> c.now, from |-> from,
                      to |-> to, msgType |-> type, body |-> body,
                      mid |-> c.nextMid])
       ELSE c1

\* (mutant) a wake-up goes through the latency model as a message does
wakeupWithLatency(c, agentId, atNs) ==
  qpush(c, [from |-> -1, to |-> agentId, type |-> "WAKEUP", body |-> <<>>,
            at |-> atNs + latencyDelayNs(-1, agentId)])

\* wakeup(agentId, atNs)
wakeup(c, agentId, atNs) ==
  qpush(c, [from |-> -1, to |-> agentId, type |-> "WAKEUP", body |-> <<>>,
            at |-> atNs])

\* broadcast(type, body, extraDelayNs): the loop over this.agents from index i
RECURSIVE broadcastFrom(_, _, _, _, _)
broadcastFrom(c, i, type, body, extraDelayNs) ==
  IF i > Len(agents) THEN c
  ELSE LET to == agents[i]
       IN IF to = exchangeId
            THEN broadcastFrom(c, i + 1, type, body, extraDelayNs)
          ELSE broadcastFrom(
                 qpush(c, [from |-> exchangeId, to |-> to, type |-> type,
                           body |-> body,
                           at |-> c.now + latencyDelayNs(exchangeId, to)
                                    + extraDelayNs]),
                 i + 1, type, body, extraDelayNs)

\* (mutant) the loop stops after the first agent it sends to
broadcastToFirst(c, type, body, extraDelayNs) ==
  LET others == SelectSeq(agents, LAMBDA a : a # exchangeId)
  IN IF others = <<>> THEN c
     ELSE qpush(c, [from |-> exchangeId, to |-> others[1], type |-> type,
                    body |-> body,
                    at |-> c.now + latencyDelayNs(exchangeId, others[1])
                             + extraDelayNs])

broadcast(c, type, body, extraDelayNs) ==
  broadcastFrom(c, 1, type, body, extraDelayNs)

isAgent(id) == \E i \in 1..Len(agents) : agents[i] = id

-----------------------------------------------------------------------------
(* agents/ExchangeAgent.ts; x = [c, book] is the kernel context and the book *)

has(body, f) == f \in DOMAIN body

\* Agent.send of the exchange: kernel.send(this.id, to, type, body, 0)
xsend(x, to, type, body) ==
  [x EXCEPT !.c = send(x.c, exchangeId, to, type, body, 0)]

xemit(x, ev) == [x EXCEPT !.c = emit(x.c, ev)]

\* (mutant) the order a rejected message names is taken out of the book
rejectCancelling(x, to, refType, reason, ref) ==
  LET r == cancel(x.book, IF "id" \in DOMAIN ref THEN ref.id ELSE "")
  IN xsend([x EXCEPT !.book =
              [bids |-> r.bids, asks |-> r.asks, last |-> r.last]],
           to, "ORDER_REJECTED",
           [reason |-> reason, refType |-> refType, ref |-> ref])

reject(x, to, refType, reason, ref) ==
  xsend(x, to, "ORDER_REJECTED",
        [reason |-> reason, refType |-> refType, ref |-> ref])

publish(x) ==
  LET snap == snapshot(x.book, 10)
  IN [x EXCEPT !.c = broadcast(x.c, "MARKET_DATA",
                       [symbol |-> SYMBOL, bids |-> snap.bids,
                        asks |-> snap.asks, last |-> snap.last], 0)]

otherSide(side) == IF side = "BUY" THEN "SELL" ELSE "BUY"

\* (mutant) the TRADE event emitted between the two sends
execEffectsTradeBetween(x, t, e, taker, side, takerBody) ==
  LET makerSide == otherSide(side)
      x1 == xsend(x, taker, "ORDER_EXECUTED", takerBody)
      x2 == xemit(x1, [type |-> "TRADE", ts |-> t, symbol |-> SYMBOL,
                       price |-> e.price, qty |-> e.qty, maker |-> e.maker,
                       taker |-> taker, makerSide |-> makerSide])
  IN xsend(x2, e.maker, "ORDER_EXECUTED",
           [symbol |-> SYMBOL, price |-> e.price, qty |-> e.qty,
            role |-> "MAKER", sideForRecipient |-> makerSide,
            orderId |-> e.makerOrderId])

\* the body of execs.forEach for one execution e of an order of `side`
\* that `taker` sent: what it sends and emits, in the order it does
execEffects(x, t, e, taker, side, takerBody) ==
  LET makerSide == otherSide(side)
      x1 == xsend(x, taker, "ORDER_EXECUTED", takerBody)
      x2 == xsend(x1, e.maker, "ORDER_EXECUTED",
                  [symbol |-> SYMBOL, price |-> e.price, qty |-> e.qty,
                   role |-> "MAKER", sideForRecipient |-> makerSide,
                   orderId |-> e.makerOrderId])
  IN xemit(x2, [type |-> "TRADE", ts |-> t, symbol |-> SYMBOL,
                price |-> e.price, qty |-> e.qty, maker |-> e.maker,
                taker |-> taker, makerSide |-> makerSide])

RECURSIVE limitExecs(_, _, _, _)
limitExecs(x, t, execs, o) ==
  IF execs = <<>> THEN x
  ELSE LET e == Head(execs)
       IN limitExecs(
            execEffects(x, t, e, o.agent, o.side,
                        [symbol |-> SYMBOL, price |-> e.price, qty |-> e.qty,
                         role |-> "TAKER", sideForRecipient |-> o.side,
                         orderId |-> o.id]),
            t, Tail(execs), o)

RECURSIVE marketExecs(_, _, _, _, _)
marketExecs(x, t, execs, from, side) ==
  IF execs = <<>> THEN x
  ELSE LET e == Head(execs)
       IN marketExecs(
            execEffects(x, t, e, from, side,
                        [symbol |-> SYMBOL, price |-> e.price, qty |-> e.qty,
                         role |-> "TAKER", sideForRecipient |-> side]),
            t, Tail(execs), from, side)

bookOf(r) == [bids |-> r.bids, asks |-> r.asks, last |-> r.last]

\* the quantity the executions took
RECURSIVE execsQty(_)
execsQty(execs) ==
  IF execs = <<>> THEN 0 ELSE Head(execs).qty + execsQty(Tail(execs))

\* (mutant) only the quantity of a limit order is validated
nonPositiveQty(o) == o.qty <= 0

\* the second validation of a LIMIT_ORDER
nonPositive(o) == o.qty <= 0 \/ o.price <= 0

receiveLimit(x, t, msg) ==
  LET o == msg.body
  IN IF ~has(o, "symbol") \/ o.symbol # SYMBOL
       THEN reject(x, msg.from, "LIMIT_ORDER", "Symbol mismatch", o)
     ELSE IF nonPositive(o)
       THEN reject(x, msg.from, "LIMIT_ORDER", "Non-positive qty or price", o)
     ELSE IF o.side # "BUY" /\ o.side # "SELL"
       THEN reject(x, msg.from, "LIMIT_ORDER", "Invalid side", o)
     ELSE
       LET r == placeLimit(x.book, o)
           x1 == [x EXCEPT !.book = bookOf(r), !.execs = r.execs,
                           !.tops = r.tops]
           \* o is the object placeLimit put in the book: its qty is what
           \* match left of it
           x2 == xsend(x1, msg.from, "ORDER_ACCEPTED",
                       [orderId |-> o.id, symbol |-> o.symbol,
                        side |-> o.side, price |-> o.price,
                        qty |-> o.qty - execsQty(r.execs)])
       IN publish(limitExecs(x2, t, r.execs, o))

receiveMarket(x, t, msg) ==
  LET b == msg.body
  IN IF ~has(b, "side") \/ (b.side # "BUY" /\ b.side # "SELL")
       THEN reject(x, msg.from, "MARKET_ORDER", "Invalid side", b)
     ELSE IF ~has(b, "qty") \/ b.qty <= 0
       THEN reject(x, msg.from, "MARKET_ORDER", "Non-positive qty", b)
     ELSE
       LET r == placeMarket(x.book, msg.from, b.side, b.qty, t)
           x1 == [x EXCEPT !.book = bookOf(r), !.execs = r.execs]
       IN publish(IF r.filled > 0
                    THEN marketExecs(x1, t, r.execs, msg.from, b.side)
                    ELSE reject(x1, msg.from, "MARKET_ORDER", "No liquidity",
                                b))

\* (mutant) only the agent of an order may cancel it
receiveCancelOwnerOnly(x, t, msg) ==
  LET b == msg.body
  IN IF ~has(b, "id")
       THEN reject(x, msg.from, "CANCEL_ORDER", "Missing order id", b)
     ELSE
       LET r == cancel(x.book, b.id)
       IN IF r.ok /\ r.removed[1].agent = msg.from
            THEN LET o == r.removed[1]
                     x1 == xsend([x EXCEPT !.book = bookOf(r)], msg.from,
                                 "ORDER_CANCELLED",
                                 [orderId |-> b.id, side |-> o.side,
                                  price |-> o.price, qty |-> o.qty])
                     x2 == xemit(x1, [type |-> "ORDER_LOG", ts |-> t,
                                      from |-> msg.from, to |-> exchangeId,
                                      msgType |-> "CANCEL_ORDER",
                                      body |-> [id |-> b.id],
                                      mid |-> msg.mid])
                 IN publish(x2)
          ELSE reject(x, msg.from, "CANCEL_ORDER", "Unknown order id",
                      [id |-> b.id])

receiveCancel(x, t, msg) ==
  LET b == msg.body
  IN IF ~has(b, "id")
       THEN reject(x, msg.from, "CANCEL_ORDER", "Missing order id", b)
     ELSE
       LET r == cancel(x.book, b.id)
       IN IF r.ok
            THEN LET o == r.removed[1]
                     x1 == xsend([x EXCEPT !.book = bookOf(r)], msg.from,
                                 "ORDER_CANCELLED",
                                 [orderId |-> b.id, side |-> o.side,
                                  price |-> o.price, qty |-> o.qty])
                     x2 == xemit(x1, [type |-> "ORDER_LOG", ts |-> t,
                                      from |-> msg.from, to |-> exchangeId,
                                      msgType |-> "CANCEL_ORDER",
                                      body |-> [id |-> b.id],
                                      mid |-> msg.mid])
                 IN publish(x2)
          ELSE reject(x, msg.from, "CANCEL_ORDER", "Unknown order id",
                      [id |-> b.id])

\* the patch receive builds from a MODIFY_ORDER body
patchOf(b) == [f \in DOMAIN b \cap {"price", "qty"} |-> b[f]]

receiveModify(x, t, msg) ==
  LET b == msg.body
  IN IF ~has(b, "id")
       THEN reject(x, msg.from, "MODIFY_ORDER", "Missing order id", b)
     ELSE IF has(b, "price") /\ b.price <= 0
       THEN reject(x, msg.from, "MODIFY_ORDER", "Non-positive price", b)
     ELSE IF has(b, "qty") /\ b.qty < 0
       THEN reject(x, msg.from, "MODIFY_ORDER", "Negative qty", b)
     ELSE
       LET r == modify(x.book, b.id, patchOf(b), t)
       IN IF ~r.ok
            THEN reject(x, msg.from, "MODIFY_ORDER", "Unknown order id",
                        [id |-> b.id])
          ELSE
            LET x1 == xsend([x EXCEPT !.book = bookOf(r)], msg.from,
                            "ORDER_ACCEPTED",
                            [f \in {"orderId", "replaced"}
                                      \cup DOMAIN patchOf(b) |->
                               IF f = "orderId" THEN b.id
                               ELSE IF f = "replaced" THEN TRUE ELSE b[f]])
                x2 == xemit(x1, [type |-> "ORDER_LOG", ts |-> t,
                                 from |-> msg.from, to |-> exchangeId,
                                 msgType |-> "MODIFY_ORDER", body |-> b,
                                 mid |-> msg.mid])
            IN publish(x2)

receiveQuery(x, t, msg) ==
  IF msg.type = "QUERY_SPREAD"
    THEN LET snap == snapshot(x.book,
                       IF has(msg.body, "depth") THEN msg.body.depth ELSE 5)
         IN xsend(x, msg.from, "QUERY_SPREAD",
                  [symbol |-> SYMBOL, bids |-> snap.bids, asks |-> snap.asks,
                   last |-> snap.last])
    ELSE xsend(x, msg.from, "QUERY_LAST",
               [symbol |-> SYMBOL, last |-> x.book.last])

\* ExchangeAgent.receive(t, msg)
receive(x, t, msg) ==
  CASE msg.type = "LIMIT_ORDER" -> receiveLimit(x, t, msg)
    [] msg.type = "MARKET_ORDER" -> receiveMarket(x, t, msg)
    [] msg.type = "CANCEL_ORDER" -> receiveCancel(x, t, msg)
    [] msg.type = "MODIFY_ORDER" -> receiveModify(x, t, msg)
    [] msg.type \in {"QUERY_SPREAD", "QUERY_LAST"} -> receiveQuery(x, t, msg)
    [] OTHER -> x

-----------------------------------------------------------------------------
(* The queue on its own: any interleaving of push and pop *)

NoResult == [op |-> "none"]

InitQueue ==
  /\ heap = <<>>
  /\ nextMid = 0
  /\ popped = <<>>
  /\ pushes = 0
  /\ pops = 0

InitBook ==
  /\ bids = <<>>
  /\ asks = <<>>
  /\ last = <<>>
  /\ result = NoResult

InitKernel ==
  /\ timeNs = 0
  /\ timer = 0
  /\ timers = {}
  /\ pc = "idle"
  /\ out = <<>>
  /\ handled = <<>>
  /\ maxAt = <<>>
  /\ logCount = <<>>
  /\ sends = 0
  /\ wakes = 0
  /\ starts = 0

InitPQ == InitQueue /\ InitBook /\ InitKernel

PQPush ==
  /\ pushes < MaxPush
  /\ Len(heap) < MaxQueue
  /\ \E t \in 1..MaxAt :
       heap' = push(heap, [at |-> t, mid |-> nextMid])
  /\ nextMid' = nextMid + 1
  /\ pushes' = pushes + 1
  /\ popped' = <<>>
  /\ UNCHANGED <<pops, bookVars, result, kernelVars>>

PQPop ==
  /\ LET r == pop(heap)
     IN /\ popped' = r[1]
        /\ heap' = r[2]
        /\ pops' = pops + Len(r[1])
  /\ UNCHANGED <<nextMid, pushes, bookVars, result, kernelVars>>

NextPQ == PQPush \/ PQPop

SpecPQ == InitPQ /\ [][NextPQ]_vars

-----------------------------------------------------------------------------
(* The order book on its own: any sequence of its four mutating calls *)

Book == [bids |-> bids, asks |-> asks, last |-> last]

\* the ids of the book specification: one more than the book holds, so that
\* an order can arrive while the book is full
BookIds == OrderIds \cup {"o3"}

\* whether an order of this id rests in the book
resident(B, id) ==
  \/ \E i \in 1..Len(B.bids) : B.bids[i].id = id
  \/ \E i \in 1..Len(B.asks) : B.asks[i].id = id

Orders ==
  {o \in [id : BookIds, agent : Traders, symbol : {SYMBOL}, side : Sides,
          price : 1..MaxPrice, qty : 1..MaxQty, ts : 1..MaxTs] :
     o.agent = ownerOf(o.id)}

Patches ==
  [price : 1..MaxPrice] \cup [qty : 0..MaxQty]
    \cup [price : 1..MaxPrice, qty : {0, MaxQty}]

setBook(r) ==
  /\ bids' = r.bids
  /\ asks' = r.asks
  /\ last' = r.last

\* (ghost) result records the last call, for the properties to read.  The
\* book does not depend on it, so a behaviour records a call or not, and a
\* recorded call is followed by nothing but a cancel of the order just placed.
unobserved == result = NoResult
observe(r) == result' \in {NoResult, r}

BookPlaceLimit ==
  /\ unobserved
  /\ \E o \in Orders :
       LET r == placeLimit(Book, o)
       IN /\ ~resident(Book, o.id)
          /\ Len(r.bids) + Len(r.asks) <= MaxBook
          /\ setBook(r)
          /\ observe([op |-> "placeLimit", o |-> o, execs |-> r.execs,
                       tops |-> r.tops, pre |-> Book])
  /\ UNCHANGED <<pqVars, queueVars, kernelVars>>

BookPlaceMarket ==
  /\ unobserved
  /\ \E agent \in Traders, side \in Sides, qty \in 1..MaxQty :
       LET r == placeMarket(Book, agent, side, qty, MaxTs)
       IN /\ setBook(r)
          /\ observe([op |-> "placeMarket", agent |-> agent, side |-> side,
                       qty |-> qty, filled |-> r.filled, execs |-> r.execs,
                       pre |-> Book])
  /\ UNCHANGED <<pqVars, queueVars, kernelVars>>

\* (ghost) the book as it was before the call that came just before this
\* one, when that call was placeLimit of the order id with no execution
placedBefore(id) ==
  IF result.op = "placeLimit" /\ result.o.id = id /\ result.execs = <<>>
    THEN <<result.pre>> ELSE <<>>

BookCancel ==
  /\ unobserved \/ result.op = "placeLimit"
  /\ \E id \in BookIds :
       LET r == cancel(Book, id)
       IN /\ setBook(r)
          /\ observe([op |-> "cancel", id |-> id, ok |-> r.ok,
                       removed |-> r.removed, placed |-> placedBefore(id),
                       pre |-> Book])
  /\ UNCHANGED <<pqVars, queueVars, kernelVars>>

BookModify ==
  /\ unobserved
  /\ \E id \in BookIds, patch \in Patches, nowTs \in {MaxTs} :
       LET r == modify(Book, id, patch, nowTs)
       IN /\ setBook(r)
          /\ observe([op |-> "modify", id |-> id, patch |-> patch,
                       nowTs |-> nowTs, ok |-> r.ok, order |-> r.order,
                       pre |-> Book])
  /\ UNCHANGED <<pqVars, queueVars, kernelVars>>

\* snapshot(depth): the callers pass 1, 5, 10, 20 or the depth of a
\* QUERY_SPREAD body
Depths == (0 - 1)..MaxDepth

BookSnapshot ==
  /\ unobserved
  /\ \E depth \in Depths :
       result' = [op |-> "snapshot", depth |-> depth,
                  snap |-> snapshot(Book, depth), pre |-> Book]
  /\ UNCHANGED <<bookVars, pqVars, queueVars, kernelVars>>

InitBk == InitQueue /\ InitBook /\ InitKernel

NextBook ==
  \/ BookPlaceLimit
  \/ BookPlaceMarket
  \/ BookCancel
  \/ BookModify
  \/ BookSnapshot

SpecBook == InitBk /\ [][NextBook]_vars

-----------------------------------------------------------------------------
(* The kernel with the exchange (agent 0), a wake-driven strategy agent      *)
(* (agent 1) and a HumanTrader driven from outside the tick loop (agent 2)   *)

Strategists == {1}
idOf(a) == IF a = 1 THEN "o1" ELSE "o2"

tickNs == wallTickMs * NS_PER_MS

\* the agents send while the exchange can still answer within MaxTicks
canSend ==
  /\ sends < MaxSends
  /\ timeNs + ms(rpcUpMs) + ms(computeMs) <= MaxTicks * tickNs

\* the message bodies an agent a sends to the exchange at time now
LimitBodies(a, now) ==
  [id : {idOf(a)}, agent : {a}, symbol : {SYMBOL}, side : Sides,
   price : 1..MaxPrice, qty : 1..MaxQty, ts : {now}]
    \cup { [id |-> idOf(a), agent |-> a, symbol |-> "OTHER", side |-> "BUY",
            price |-> 1, qty |-> 1, ts |-> now],
           [id |-> idOf(a), agent |-> a, symbol |-> SYMBOL, side |-> "BUY",
            price |-> 0, qty |-> 1, ts |-> now],
           [id |-> idOf(a), agent |-> a, symbol |-> SYMBOL, side |-> "SELL",
            price |-> 1, qty |-> 0, ts |-> now],
           [id |-> idOf(a), agent |-> a, symbol |-> SYMBOL, side |-> "HOLD",
            price |-> 1, qty |-> 1, ts |-> now] }

MarketBodies ==
  [side : Sides, qty : 1..MaxQty]
    \cup {[side |-> "HOLD", qty |-> 1], [side |-> "BUY", qty |-> 0]}

CancelBodies == [id : OrderIds] \cup {<<>>}

ModifyBodies ==
  [id : OrderIds, price : 1..MaxPrice] \cup [id : OrderIds, qty : 0..1]
    \cup [id : OrderIds, price : {MaxPrice}, qty : {MaxQty}]
    \cup {[price |-> 1], [id |-> "o1", price |-> 0],
          [id |-> "o1", qty |-> -1]}

\* the sends an agent may make: <<to, type, body>>
Requests(a, now) ==
  {<<exchangeId, "LIMIT_ORDER", b>> : b \in LimitBodies(a, now)}
    \cup {<<exchangeId, "MARKET_ORDER", b>> : b \in MarketBodies}
    \cup {<<exchangeId, "CANCEL_ORDER", b>> : b \in CancelBodies}
    \cup {<<exchangeId, "MODIFY_ORDER", b>> : b \in ModifyBodies}
    \cup {<<exchangeId, "QUERY_LAST", <<>>>>,
          <<exchangeId, "QUERY_SPREAD", [depth |-> 1]>>,
          <<UnknownId, "QUERY_LAST", <<>>>>}

\* the context of a step that starts now, inside the handler of message
\* cause (-1 outside a handler)
ctx(cause) ==
  [heap |-> heap, nextMid |-> nextMid, out |-> <<>>, cause |-> cause,
   now |-> timeNs]

RECURSIVE countLogs(_, _)
countLogs(o, mid) ==
  IF o = <<>> THEN 0
  ELSE (IF Head(o).k = "emit" /\ Head(o).ev.type = "ORDER_LOG"
           /\ Head(o).ev.mid = mid THEN 1 ELSE 0)
       + countLogs(Tail(o), mid)

\* the ghost bookkeeping every kernel step does with the context it ends in
absorb(c) ==
  /\ heap' = c.heap
  /\ nextMid' = c.nextMid
  /\ out' = c.out
  /\ logCount' = [i \in 1..c.nextMid |->
                    (IF i <= Len(logCount) THEN logCount[i] ELSE 0)
                      + countLogs(c.out, i - 1)]

\* the largest at delivered up to and including the last delivery
seenAt ==
  IF handled = <<>> THEN maxAt
  ELSE IF maxAt = <<>> THEN <<handled[1].at>>
  ELSE <<Max(maxAt[1], handled[1].at)>>

\* start(0): set the clock, call every kernelStarting (the strategy agents
\* request a wake-up at t), start an interval
startBody ==
  /\ starts' = starts + 1
  /\ timeNs' = 0
  /\ LET c0 == [ctx(-1) EXCEPT !.now = 0]
         RECURSIVE starting(_, _)
         starting(c, i) ==
           IF i > Len(agents) THEN c
           ELSE starting(IF agents[i] \in Strategists
                           THEN wakeup(c, agents[i], c.now) ELSE c, i + 1)
     IN absorb(starting(c0, 1))
  /\ timer' = starts + 1
  /\ timers' = timers \cup {starts + 1}
  /\ handled' = <<>>
  /\ maxAt' = <<>>
  /\ UNCHANGED <<pc, sends, wakes, bookVars, pqVars, result>>

Start ==
  /\ pc = "idle"
  /\ starts < MaxStarts
  /\ startBody

\* stop(): clear this.timer if there is one, call every kernelStopping (no
\* agent acts in it; the calls are the one effect recorded)
Stop ==
  /\ pc = "idle"
  /\ timers' = timers \ {timer}
  /\ out' = <<[k |-> "stopping"]>>
  /\ handled' = <<>>
  /\ maxAt' = seenAt
  /\ UNCHANGED <<timeNs, timer, pc, heap, nextMid, logCount, sends, wakes,
                 starts, bookVars, pqVars, result>>

\* an agent's entry point called from outside the tick loop (HumanTrader's
\* placeLimit, placeMarket, cancel, modify): one Kernel.send
ExternalSend ==
  /\ pc = "idle"
  /\ canSend
  /\ \E a \in Traders \ Strategists : \E rq \in Requests(a, timeNs) :
       absorb(send(ctx(-1), a, rq[1], rq[2], rq[3], 0))
  /\ sends' = sends + 1
  /\ handled' = <<>>
  /\ maxAt' = seenAt
  /\ UNCHANGED <<timeNs, timer, timers, pc, wakes, starts, bookVars, pqVars,
                 result>>

\* tick(), first statement: the interval fires and the clock advances
TickBegin ==
  /\ pc = "idle"
  /\ timers # {}
  /\ timeNs < MaxTicks * tickNs
  /\ timeNs' = timeNs + wallTickMs * NS_PER_MS
  /\ pc' = "tick"
  /\ out' = <<>>
  /\ handled' = <<>>
  /\ maxAt' = seenAt
  /\ UNCHANGED <<timer, timers, heap, nextMid, logCount, sends, wakes, starts,
                 bookVars, pqVars, result>>

\* (mutant) the loop takes whatever is queued, due or not
dueAny == pc = "tick" /\ length(heap) > 0

\* (mutant) the loop takes only what was queued when the tick began
dueSentBefore ==
  /\ pc = "tick"
  /\ length(heap) > 0
  /\ peek(heap)[1].at <= timeNs
  /\ peek(heap)[1].sent < timeNs

due == pc = "tick" /\ length(heap) > 0 /\ peek(heap)[1].at <= timeNs

\* deliver(m): the handler of the agent it calls
handlerOf(m) == IF m.type = "WAKEUP" THEN "wakeup" ELSE "receive"

\* (ghost) the call deliver makes for m: the message with the handler called
\* and the time passed to it; asked is <<at>> when the handler requested a
\* wake-up at `at`, else <<>>
called(m, asked) ==
  m @@ [handler |-> handlerOf(m), t |-> timeNs, asked |-> asked]

\* the context after q.pop() in the loop of tick
popCtx == [ctx(pop(heap)[1][1].mid) EXCEPT !.heap = pop(heap)[2]]

\* deliver(m) to the exchange: WAKEUP is Agent.wakeup (nothing), anything
\* else is ExchangeAgent.receive
DeliverExchange ==
  /\ due
  /\ LET m == pop(heap)[1][1]
         x0 == [c |-> popCtx, book |-> Book, execs |-> <<>>, tops |-> <<>>]
         call == called(m, <<>>)
         x == IF call.handler = "wakeup" THEN x0 ELSE receive(x0, call.t, m)
     IN /\ m.to = exchangeId
        /\ absorb(x.c)
        /\ setBook(x.book)
        /\ result' = [op |-> "receive", execs |-> x.execs, tops |-> x.tops]
        /\ handled' = <<call>>
  /\ maxAt' = seenAt
  /\ UNCHANGED <<timeNs, timer, timers, pc, sends, wakes, starts, pqVars>>

\* deliver(m) of a WAKEUP to a strategy agent: its wakeup handler may send
\* one request and may request its next wake-up, at t + d
WakeOffsets == {0 - tickNs, tickNs}

DeliverWakeup ==
  /\ due
  /\ LET m == pop(heap)[1][1]
     IN /\ m.to \in Strategists
        /\ handlerOf(m) = "wakeup"
        /\ \E act \in BOOLEAN, again \in BOOLEAN :
             /\ act => canSend
             /\ again => wakes < MaxWakes
             /\ sends' = IF act THEN sends + 1 ELSE sends
             /\ wakes' = IF again THEN wakes + 1 ELSE wakes
             /\ \E rq \in IF act THEN Requests(m.to, timeNs) ELSE {<<>>} :
                  \E d \in IF again THEN WakeOffsets ELSE {0} :
                    LET c1 == IF act
                                THEN send(popCtx, m.to, rq[1], rq[2], rq[3], 0)
                                ELSE popCtx
                        c2 == IF again THEN wakeup(c1, m.to, timeNs + d)
                              ELSE c1
                    IN /\ absorb(c2)
                       /\ handled' =
                            <<called(m, IF again THEN <<timeNs + d>>
                                        ELSE <<>>)>>
  /\ maxAt' = seenAt
  /\ UNCHANGED <<timeNs, timer, timers, pc, starts, bookVars, pqVars, result>>

\* deliver(m) to a trading agent whose handler calls nothing in the kernel:
\* receive of any agent here, wakeup of the HumanTrader
DeliverAgent ==
  /\ due
  /\ LET m == pop(heap)[1][1]
     IN /\ m.to \in Traders
        /\ ~(m.to \in Strategists /\ handlerOf(m) = "wakeup")
        /\ absorb(popCtx)
        /\ handled' = <<called(m, <<>>)>>
  /\ maxAt' = seenAt
  /\ UNCHANGED <<timeNs, timer, timers, pc, sends, wakes, starts, bookVars,
                 pqVars, result>>

\* what deliver leaves of a message no agent has the id of (ghost: the one
\* entry of out that is neither pushed nor emitted)
dropped(m) == [k |-> "drop", m |-> m]

\* (mutant) the message is dropped and the loop of tick is left
DeliverUnknownEndsTick ==
  /\ due
  /\ LET m == pop(heap)[1][1]
     IN /\ ~isAgent(m.to)
        /\ absorb([popCtx EXCEPT !.out = <<dropped(m)>>])
        /\ handled' = <<>>
  /\ maxAt' = seenAt
  /\ pc' = "idle"
  /\ UNCHANGED <<timeNs, timer, timers, sends, wakes, starts, bookVars,
                 pqVars, result>>

\* deliver(m) when no agent has the id m.to: return
DeliverUnknown ==
  /\ due
  /\ LET m == pop(heap)[1][1]
     IN /\ ~isAgent(m.to)
        /\ absorb([popCtx EXCEPT !.out = <<dropped(m)>>])
        /\ handled' = <<>>
  /\ maxAt' = seenAt
  /\ UNCHANGED <<timeNs, timer, timers, pc, sends, wakes, starts, bookVars,
                 pqVars, result>>

\* the call of onTick (ghost: the one entry of out that is neither pushed
\* nor emitted; after is the last delivery of the tick, if any)
onTick(t) == [k |-> "onTick", t |-> t, after |-> handled]

\* tick(), after the loop: onTick
TickEnd ==
  /\ pc = "tick"
  /\ ~due
  /\ pc' = "idle"
  /\ out' = <<onTick(timeNs)>>
  /\ handled' = <<>>
  /\ maxAt' = seenAt
  /\ UNCHANGED <<timeNs, timer, timers, heap, nextMid, logCount, sends, wakes,
                 starts, bookVars, pqVars, result>>

Init == InitQueue /\ InitBook /\ InitKernel

Next ==
  \/ Start
  \/ ExternalSend
  \/ TickBegin
  \/ DeliverExchange
  \/ DeliverWakeup
  \/ DeliverAgent
  \/ DeliverUnknown
  \/ TickEnd

Spec == Init /\ [][Next]_vars

-----------------------------------------------------------------------------
(* The kernel's life cycle: start and stop called in any order, start also  *)
(* while an interval is running; one send is left to the agents             *)

LifeStart ==
  /\ pc = "idle"
  /\ starts < MaxLifeStarts
  /\ startBody

InitLife ==
  /\ InitQueue
  /\ InitBook
  /\ timeNs = 0
  /\ timer = 0
  /\ timers = {}
  /\ pc = "idle"
  /\ out = <<>>
  /\ handled = <<>>
  /\ maxAt = <<>>
  /\ logCount = <<>>
  /\ sends = MaxSends - 1
  /\ wakes = 0
  /\ starts = 0

NextLife ==
  \/ LifeStart
  \/ Stop
  \/ ExternalSend
  \/ TickBegin
  \/ DeliverExchange
  \/ DeliverWakeup
  \/ DeliverAgent
  \/ DeliverUnknown
  \/ TickEnd

SpecLife == InitLife /\ [][NextLife]_vars

-----------------------------------------------------------------------------
(* The clock on its own: a kernel of any tickMs up to the default, started   *)
(* as run.ts starts it, at start(nowNs()), ticks with an empty queue.        *)
(* nowNs() is Date.now() * 1_000_000, a double in [2^60, 2^61), where the    *)
(* doubles are ULP apart; timeNs is here the clock's distance from startNs.  *)

ULP == 256

TickMss == 1..wallTickMs

\* x + d as JavaScript adds two numbers whose sum lies in [2^60, 2^61): the
\* multiple of ULP nearest to the sum, the even one of two equally near
fadd(x, d) ==
  LET q == (x + d) \div ULP
      r == (x + d) % ULP
  IN IF 2 * r < ULP THEN q * ULP
     ELSE IF 2 * r > ULP THEN (q + 1) * ULP
     ELSE IF q % 2 = 0 THEN q * ULP ELSE (q + 1) * ULP

InitClock ==
  /\ InitQueue
  /\ bids = <<>>
  /\ asks = <<>>
  /\ last = <<>>
  /\ InitKernel
  /\ result \in {[op |-> "clock", tickMs |-> t, ticks |-> 0] : t \in TickMss}

\* tick() with nothing queued and no onTick: this.timeNs += wallTickMs *
\* NS_PER_MS
ClockTick ==
  /\ result.op = "clock"
  /\ result.ticks < MaxTicks
  /\ timeNs' = fadd(timeNs, result.tickMs * NS_PER_MS)
  /\ result' = [result EXCEPT !.ticks = @ + 1]
  /\ UNCHANGED <<bookVars, pqVars, queueVars, timer, timers, pc, out, handled,
                 maxAt, logCount, sends, wakes, starts>>

NextClock == ClockTick

SpecClock == InitClock /\ [][NextClock]_vars

-----------------------------------------------------------------------------
(* The latency model on its own: a TwoStageRpcLatency of any admissible      *)
(* parameters is asked for the delay of a message, and asked again for the   *)
(* same message in a second run of the same configuration.  rnd is           *)
(* Math.random, so every draw is free.                                       *)

Configs ==
  [rpcUpMs : 0..MaxMs, rpcDownMs : 0..MaxMs, computeMs : {computeMs},
   downJitterMs : 0..MaxMs]

AgentIds == {agents[i] : i \in 1..Len(agents)}

\* the values Math.round((rnd() * 2 - 1) * downJitterMs) takes for rnd() in
\* [0, 1); jitter makes no draw unless downJitterMs > 0
Draws(L) ==
  IF L.downJitterMs <= 0 THEN {0}
  ELSE (0 - L.downJitterMs)..L.downJitterMs

InitLat ==
  /\ InitQueue
  /\ bids = <<>>
  /\ asks = <<>>
  /\ last = <<>>
  /\ InitKernel
  /\ result \in {[op |-> "latency", L |-> L] : L \in Configs}

LatDelay ==
  /\ result.op = "latency"
  /\ \E from \in AgentIds, to \in AgentIds, r \in Draws(result.L) :
       result' = [op |-> "delayNs", L |-> result.L, from |-> from, to |-> to,
                  delay |-> delayNsOf(result.L, from, to, r)]
  /\ UNCHANGED <<bookVars, pqVars, queueVars, kernelVars>>

LatReplay ==
  /\ result.op = "delayNs"
  /\ \E r \in Draws(result.L) :
       result' = [op |-> "replay", L |-> result.L, from |-> result.from,
                  to |-> result.to, delay |-> result.delay,
                  again |-> delayNsOf(result.L, result.from, result.to, r)]
  /\ UNCHANGED <<bookVars, pqVars, queueVars, kernelVars>>

NextLat == LatDelay \/ LatReplay

SpecLat == InitLat /\ [][NextLat]_vars

-----------------------------------------------------------------------------
(* The exchange on its own: receive(t, msg) called with one order message    *)
(* after another, any integer price and quantity of AnyPrices and AnyQtys.   *)
(* The queue is drained between two calls; what a call pushed and emitted    *)
(* is in out.                                                                *)

AnyPrices == (0 - 1)..MaxPrice
AnyQtys == (0 - 1)..MaxQty

\* a message as the kernel hands it to receive at time MaxTs
inbound(from, type, body) ==
  [from |-> from, to |-> exchangeId, type |-> type, body |-> body,
   at |-> MaxTs, mid |-> 0 - 1, cause |-> 0 - 1, sent |-> 0]

\* every trader sends its limit orders under one id, stamped at time 1
ExchLimits ==
  {inbound(o.agent, "LIMIT_ORDER", o) :
     o \in {l \in [id : OrderIds, agent : Traders, symbol : {SYMBOL},
                    side : Sides, price : AnyPrices, qty : AnyQtys,
                    ts : {1}] : l.id = idOf(l.agent)}}

ExchMarkets ==
  {inbound(a, "MARKET_ORDER", b) :
     a \in Traders, b \in [side : Sides, qty : AnyQtys]}

ExchCancels ==
  {inbound(a, "CANCEL_ORDER", b) : a \in Traders, b \in [id : BookIds]}

ExchModifies ==
  {inbound(a, "MODIFY_ORDER", b) :
     a \in Traders,
     b \in [id : BookIds, price : AnyPrices] \cup [id : BookIds, qty : AnyQtys]
            \cup [id : BookIds, price : {0, MaxPrice}, qty : {0 - 1, MaxQty}]}

\* ExchangeAgent.receive(MaxTs, m) on the book; the call is recorded in
\* out, handled and result, or not at all
exchReceive(m, prev) ==
  LET x0 == [c |-> [heap |-> <<>>, nextMid |-> 0, out |-> <<>>,
                    cause |-> m.mid, now |-> MaxTs],
             book |-> Book, execs |-> <<>>, tops |-> <<>>]
      x == receive(x0, MaxTs, m)
  IN /\ Len(x.book.bids) + Len(x.book.asks) <= MaxBook
     /\ setBook(x.book)
     /\ \/ /\ result' = NoResult
           /\ out' = <<>>
           /\ handled' = <<>>
        \/ /\ result' = [op |-> "receive", pre |-> Book, prev |-> prev]
           /\ out' = x.c.out
           /\ handled' = <<m>>
     /\ UNCHANGED <<pqVars, queueVars, timeNs, timer, timers, pc, maxAt,
                    logCount, sends, wakes, starts>>

ExchLimit == unobserved /\ \E m \in ExchLimits : exchReceive(m, <<>>)

ExchMarket == unobserved /\ \E m \in ExchMarkets : exchReceive(m, <<>>)

\* a recorded cancel may be followed by the same cancel once more
ExchCancel ==
  \E m \in ExchCancels :
    \/ unobserved /\ exchReceive(m, <<>>)
    \/ /\ ~unobserved
       /\ result.prev = <<>>
       /\ handled = <<m>>
       /\ exchReceive(m, <<result.pre>>)

ExchModify == unobserved /\ \E m \in ExchModifies : exchReceive(m, <<>>)

NextExch == ExchLimit \/ ExchMarket \/ ExchCancel \/ ExchModify

SpecExch == Init /\ [][NextExch]_vars

-----------------------------------------------------------------------------
(* Properties *)

\* what the last handler did, read off its ordered effects
execSends ==
  SelectSeq(out, LAMBDA e : e.k = "push" /\ e.m.type = "ORDER_EXECUTED")
tradeEmits ==
  SelectSeq(out, LAMBDA e : e.k = "emit" /\ e.ev.type = "TRADE")
isPush(e, types) == e.k = "push" /\ e.m.type \in types
isEmit(e, type) == e.k = "emit" /\ e.ev.type = type

\* the exchange has just handled a LIMIT_ORDER or a MARKET_ORDER
handledOrder ==
  /\ handled # <<>>
  /\ handled[1].to = exchangeId
  /\ handled[1].type \in {"LIMIT_ORDER", "MARKET_ORDER"}
  /\ result.op = "receive"
incomingAgent ==
  IF handled[1].type = "LIMIT_ORDER" THEN handled[1].body.agent
  ELSE handled[1].from
incomingSide == handled[1].body.side
\* the agent whose order was resting in the i-th execution
restingAgent(i) ==
  IF handled[1].type = "LIMIT_ORDER"
    THEN (IF incomingSide = "BUY" THEN result.tops[i].ask.agent
          ELSE result.tops[i].bid.agent)
  ELSE result.execs[i].maker

\* C1: every execution of an incoming limit or market order, whichever side
\* is incoming, gives exactly one TRADE event and exactly two ORDER_EXECUTED
\* messages, one addressed to the agent of the resting order and one to the
\* agent of the incoming order.
C1_OneTradeTwoExecuted ==
  handledOrder =>
    /\ Len(tradeEmits) = Len(result.execs)
    /\ Len(execSends) = 2 * Len(result.execs)
    /\ \A i \in 1..Len(result.execs) :
         LET m1 == execSends[2 * i - 1].m
             m2 == execSends[2 * i].m
         IN \/ m1.to = restingAgent(i) /\ m2.to = incomingAgent
            \/ m1.to = incomingAgent /\ m2.to = restingAgent(i)

\* C2: in every ORDER_EXECUTED message the role is TAKER only if the
\* recipient is the agent of the incoming order and MAKER only if the
\* recipient is the agent of the resting order, and sideForRecipient is the
\* side of the order the recipient placed.
C2_RoleAndSideOfRecipient ==
  handledOrder =>
    \A j \in 1..Len(execSends) :
      LET m == execSends[j].m
          i == (j + 1) \div 2
      IN /\ m.body.role \in {"TAKER", "MAKER"}
         /\ m.body.role = "TAKER" =>
              /\ m.to = incomingAgent
              /\ m.body.sideForRecipient = incomingSide
         /\ m.body.role = "MAKER" =>
              /\ i <= Len(result.execs)
              /\ m.to = restingAgent(i)
              /\ m.body.sideForRecipient = otherSide(incomingSide)

\* C3: pop returns messages of equal at in the order they were pushed: no
\* message still queued has the at of the popped one and an earlier push.
C3_FifoAmongEqualAt ==
  popped # <<>> =>
    \A i \in 1..Len(heap) :
      heap[i].at = popped[1].at => heap[i].mid > popped[1].mid

\* C4: when placeLimit or placeMarket returns, in any state reached by
\* placeLimit, placeMarket, cancel and modify, the book is not crossed.
C4_NotCrossedAfterPlace ==
  result.op \in {"placeLimit", "placeMarket"} =>
    (bids # <<>> /\ asks # <<>> => bids[1].price < asks[1].price)

\* C5 (as stated): a LIMIT_ORDER sent at virtual time 0 with the default
\* latency and tickMs = 200 is handled by the exchange with t = 500 ms and
\* its ORDER_ACCEPTED is due at 700 ms.
C5_HandledAt500AcceptedAt700 ==
  (/\ handled # <<>>
   /\ handled[1].type = "LIMIT_ORDER"
   /\ handled[1].to = exchangeId
   /\ handled[1].from # exchangeId
   /\ handled[1].sent = 0) =>
    /\ timeNs = ms(500)
    /\ \A p \in 1..Len(out) :
         isPush(out[p], {"ORDER_ACCEPTED"}) => out[p].m.at = ms(700)

\* C5 (amended): such a LIMIT_ORDER is stamped at = 500 ms and handled on the
\* first tick at or after that, with t = 600 ms; its ORDER_ACCEPTED goes to
\* the sender stamped at = 800 ms and is delivered at virtual time 800 ms.
C5_HandledAt600AcceptedAt800 ==
  /\ (/\ handled # <<>>
      /\ handled[1].type = "LIMIT_ORDER"
      /\ handled[1].to = exchangeId
      /\ handled[1].from # exchangeId
      /\ handled[1].sent = 0) =>
       /\ handled[1].at = ms(500)
       /\ timeNs = ms(600)
       /\ \A p \in 1..Len(out) :
            isPush(out[p], {"ORDER_ACCEPTED"}) =>
              /\ out[p].m.at = ms(800)
              /\ out[p].m.to = handled[1].from
  /\ (/\ handled # <<>>
      /\ handled[1].type = "ORDER_ACCEPTED"
      /\ handled[1].sent = ms(600)) =>
       /\ handled[1].at = ms(800)
       /\ timeNs = ms(800)

C5_Witness ==
  /\ handled # <<>>
  /\ handled[1].type = "ORDER_ACCEPTED"
  /\ handled[1].sent = ms(600)
  /\ handled[1].to # exchangeId
  /\ timeNs = ms(800)

C7_NondecreasingAt ==
  (handled # <<>> /\ maxAt # <<>>) => maxAt[1] <= handled[1].at

\* C8: every rejection of an order gives an ORDER_REJECTED message to the
\* sender and an ORDER_REJECTED event on the bus.
C8_RejectionOnBus ==
  \A p \in 1..Len(out) :
    isPush(out[p], {"ORDER_REJECTED"}) =>
      /\ out[p].m.to = handled[1].from
      /\ \E q \in 1..Len(out) : isEmit(out[q], "ORDER_REJECTED")

\* the number of ORDER_EXECUTED sends among the first n effects
execSendsIn(n) ==
  Len(SelectSeq(SubSeq(out, 1, n),
                LAMBDA e : e.k = "push" /\ e.m.type = "ORDER_EXECUTED"))
\* the number of TRADE events among the first n effects
tradesIn(n) ==
  Len(SelectSeq(SubSeq(out, 1, n),
                LAMBDA e : e.k = "emit" /\ e.ev.type = "TRADE"))

\* C9 (as stated): the TRADE event of an execution is emitted between the
\* two ORDER_EXECUTED sends of that execution: after the first and before
\* the second.
C9_TradeBetweenExecuted ==
  \A p \in 1..Len(out) :
    isEmit(out[p], "TRADE") => execSendsIn(p) = 2 * tradesIn(p) - 1

\* C9 (amended): the TRADE event of an execution is emitted after both
\* ORDER_EXECUTED sends of that execution, first the taker's and then the
\* maker's, and before anything else the handler does.
C9_TradeAfterBothExecuted ==
  \A p \in 1..Len(out) :
    isEmit(out[p], "TRADE") =>
      /\ execSendsIn(p) = 2 * tradesIn(p)
      /\ p >= 3
      /\ isPush(out[p - 2], {"ORDER_EXECUTED"})
      /\ out[p - 2].m.body.role = "TAKER"
      /\ out[p - 2].m.to = out[p].ev.taker
      /\ isPush(out[p - 1], {"ORDER_EXECUTED"})
      /\ out[p - 1].m.body.role = "MAKER"
      /\ out[p - 1].m.to = out[p].ev.maker
      /\ out[p - 2].m.body.price = out[p].ev.price
      /\ out[p - 1].m.body.price = out[p].ev.price
      /\ out[p - 2].m.body.qty = out[p].ev.qty
      /\ out[p - 1].m.body.qty = out[p].ev.qty

C9_Witness ==
  /\ handledOrder
  /\ Len(result.execs) >= 1
  /\ Len(out) >= 3
  /\ isEmit(out[3], "TRADE")
  /\ isPush(out[1], {"ORDER_EXECUTED"})
  /\ isPush(out[2], {"ORDER_EXECUTED"})

\* C10: the ORDER_LOG event of a LIMIT_ORDER, MARKET_ORDER, CANCEL_ORDER or
\* MODIFY_ORDER is emitted inside send, right after the message is queued and
\* so before it is delivered; every ORDER_ACCEPTED, ORDER_EXECUTED,
\* ORDER_CANCELLED and ORDER_REJECTED is queued only while the exchange
\* handles the delivered message it answers.
C10_LogAtSendResponsesAtDelivery ==
  /\ \A i \in 1..Len(heap) :
       heap[i].type \in OrderTypes => logCount[heap[i].mid + 1] >= 1
  /\ \A p \in 1..Len(out) :
       isPush(out[p], OrderTypes) =>
         /\ p < Len(out)
         /\ isEmit(out[p + 1], "ORDER_LOG")
         /\ out[p + 1].ev.mid = out[p].m.mid
         /\ out[p + 1].ev.msgType = out[p].m.type
         /\ out[p + 1].ev.ts = out[p].m.sent
  /\ \A p \in 1..Len(out) :
       isPush(out[p], ResponseTypes) =>
         /\ handled # <<>>
         /\ handled[1].to = exchangeId
         /\ handled[1].mid = out[p].m.cause
         /\ handled[1].at <= timeNs
         /\ out[p].m.sent = timeNs
         /\ handled[1].sent < out[p].m.sent
         /\ handled[1].type \in OrderTypes =>
              logCount[handled[1].mid + 1] >= 1

C10_Witness ==
  /\ handled # <<>>
  /\ handled[1].type = "CANCEL_ORDER"
  /\ logCount[handled[1].mid + 1] >= 1
  /\ \E p \in 1..Len(out) : isPush(out[p], {"ORDER_CANCELLED"})


\* the total quantity of a sequence of orders or of executions
RECURSIVE totalQty(_)
totalQty(seq) == IF seq = <<>> THEN 0 ELSE Head(seq).qty + totalQty(Tail(seq))

\* whether a side is in price-time priority
inPriority(side, bidSide) ==
  \A i, j \in 1..Len(side) :
    i < j =>
      \/ IF bidSide THEN side[i].price > side[j].price
         ELSE side[i].price < side[j].price
      \/ side[i].price = side[j].price /\ side[i].ts <= side[j].ts

\* C15: placeMarket(agent, side, qty, ts) takes the resting orders of the
\* opposite side from the front of its price-time order: filled is the
\* smaller of qty and the quantity resting there, there is one execution per
\* maker touched, at that maker's price, every maker but the last touched is
\* consumed whole and removed, the last one stays with what is left of it,
\* last is the price of the final execution, and with nothing resting on the
\* opposite side filled is 0 and there is no execution.
C15_MarketSweepsInPriority ==
  result.op = "placeMarket" =>
    LET buy == result.side = "BUY"
        opp == IF buy THEN result.pre.asks ELSE result.pre.bids
        post == IF buy THEN asks ELSE bids
        execs == result.execs
        k == Len(execs)
    IN /\ inPriority(opp, ~buy)
       /\ result.filled = Min(result.qty, totalQty(opp))
       /\ totalQty(execs) = result.filled
       /\ k <= Len(opp)
       /\ \A i \in 1..k :
            /\ execs[i].price = opp[i].price
            /\ execs[i].maker = opp[i].agent
            /\ execs[i].makerOrderId = opp[i].id
            /\ execs[i].qty >= 1
            /\ execs[i].qty <= opp[i].qty
            /\ i < k => execs[i].qty = opp[i].qty
       /\ post =
            (IF k > 0 /\ execs[k].qty < opp[k].qty
               THEN <<[opp[k] EXCEPT !.qty = opp[k].qty - execs[k].qty]>>
             ELSE <<>>) \o SubSeq(opp, k + 1, Len(opp))
       /\ (IF buy THEN bids = result.pre.bids ELSE asks = result.pre.asks)
       /\ last = IF k > 0 THEN <<execs[k].price>> ELSE result.pre.last
       /\ opp = <<>> => result.filled = 0 /\ execs = <<>>

C15_Witness ==
  /\ result.op = "placeMarket"
  /\ result.side = "BUY"
  /\ Len(result.execs) = 2
  /\ result.execs[1].price < result.execs[2].price
  /\ Len(asks) = 1
  /\ asks[1].id = result.execs[2].makerOrderId
  /\ last = <<result.execs[2].price>>

\* whether the book B is crossed
crossed(B) ==
  B.bids # <<>> /\ B.asks # <<>> /\ B.bids[1].price >= B.asks[1].price

\* C17: on an uncrossed book, placeLimit of an order with a fresh id that
\* gives no execution, followed by cancel of that id, leaves the book as it
\* was before the placeLimit: the same orders in the same order on both
\* sides and the same last.
C17_PlaceThenCancelRestores ==
  (/\ result.op = "cancel"
   /\ result.placed # <<>>
   /\ ~crossed(result.placed[1])) =>
    /\ result.ok
    /\ Book = result.placed[1]

C17_Witness ==
  /\ result.op = "cancel"
  /\ result.placed # <<>>
  /\ ~crossed(result.placed[1])
  /\ Len(bids) = 1
  /\ last # <<>>
  /\ result.removed # <<>>
  /\ result.removed[1].side = "BUY"
  /\ result.removed[1].price = bids[1].price
  /\ result.removed[1].ts < bids[1].ts

\* the resident order modify and cancel find for an id: the bids are
\* searched first
found(B, id) ==
  LET all == B.bids \o B.asks
  IN all[CHOOSE i \in 1..Len(all) :
           all[i].id = id /\ \A j \in 1..(i - 1) : all[j].id # id]

\* C18: modify(id, patch, nowTs) of a resident order it does not remove sets
\* the order's ts to nowTs exactly when the patch gives a price that differs
\* from the order's price; a patch with the same price, or with a qty only,
\* leaves the ts as it was.
C18_TsResetIffPriceDiffers ==
  (result.op = "modify" /\ result.ok /\ result.order # <<>>) =>
    LET old == found(result.pre, result.id)
        new == result.order[1]
        differs == has(result.patch, "price") /\ result.patch.price # old.price
    IN /\ resident(Book, result.id)
       /\ new = found(Book, result.id)
       /\ differs => new.ts = result.nowTs
       /\ ~differs => new.ts = old.ts

C18_Witness ==
  /\ result.op = "modify"
  /\ result.ok
  /\ result.order # <<>>
  /\ has(result.patch, "price")
  /\ has(result.patch, "qty")
  /\ result.patch.price = found(result.pre, result.id).price
  /\ result.patch.qty # found(result.pre, result.id).qty
  /\ found(result.pre, result.id).ts < result.nowTs
  /\ result.order[1].ts = found(result.pre, result.id).ts

\* C19: modify(id, patch) with a qty of 0, with or without a price, leaves
\* the book as cancel(id) leaves it from the same state, both sides and
\* last, and fails as cancel fails, changing nothing, when the id is unknown.
C19_ModifyToZeroIsCancel ==
  (/\ result.op = "modify"
   /\ has(result.patch, "qty")
   /\ result.patch.qty = 0) =>
    LET c == cancel(result.pre, result.id)
    IN /\ Book = bookOf(c)
       /\ result.ok = c.ok
       /\ ~resident(result.pre, result.id) =>
            ~result.ok /\ ~c.ok /\ Book = result.pre

C19_Witness ==
  /\ result.op = "modify"
  /\ has(result.patch, "qty")
  /\ has(result.patch, "price")
  /\ result.patch.qty = 0
  /\ result.ok
  /\ Len(result.pre.asks) = 2
  /\ result.pre.asks[2].id = result.id
  /\ result.patch.price # result.pre.asks[2].price
  /\ Len(asks) = 1

\* the quantity resting on a side at a price
RECURSIVE qtyAtPrice(_, _)
qtyAtPrice(side, p) ==
  IF side = <<>> THEN 0
  ELSE (IF Head(side).price = p THEN Head(side).qty ELSE 0)
       + qtyAtPrice(Tail(side), p)

\* whether levels is what snapshot(depth) owes for a side: the first depth
\* levels, best price first, of one <<price, quantity at that price>> pair
\* per distinct price
levelsFor(levels, side, bidSide, depth) ==
  LET prices == {side[i].price : i \in 1..Len(side)}
      shown == {levels[i][1] : i \in 1..Len(levels)}
  IN /\ Len(levels) = Min(depth, Cardinality(prices))
     /\ shown \subseteq prices
     /\ \A i \in 1..Len(levels) :
          /\ levels[i] = <<levels[i][1], qtyAtPrice(side, levels[i][1])>>
          /\ \A j \in 1..Len(levels) :
               i < j => IF bidSide THEN levels[i][1] > levels[j][1]
                        ELSE levels[i][1] < levels[j][1]
     /\ \A p \in prices \ shown :
          \A q \in shown : IF bidSide THEN q > p ELSE q < p

\* C20: snapshot(depth), for a depth that is not negative, leaves the book
\* as it is and returns, per side, one (price, total quantity at that price)
\* pair per distinct price, the bids by falling price and the asks by rising
\* price, cut to the first depth levels, with the current last; a second
\* call on the same book returns the same.
C20_SnapshotAggregatesByPrice ==
  (result.op = "snapshot" /\ result.depth >= 0) =>
    /\ Book = result.pre
    /\ levelsFor(result.snap.bids, bids, TRUE, result.depth)
    /\ levelsFor(result.snap.asks, asks, FALSE, result.depth)
    /\ result.snap.last = last
    /\ snapshot(Book, result.depth) = result.snap

C20_Witness ==
  /\ result.op = "snapshot"
  /\ result.depth = 1
  /\ Len(bids) = 2
  /\ bids[1].price = bids[2].price
  /\ result.snap.bids = <<<<bids[1].price, bids[1].qty + bids[2].qty>>>>
  /\ result.snap.last # <<>>


\* stop() has returned and start() has not been called since
stopped == timer # 0 /\ timer \notin timers

\* C11: once stop() has returned no receive or wakeup handler is invoked
\* any more, whatever is queued and whatever calls came before, start called
\* twice before the stop included.
C11_NoHandlerAfterStop ==
  stopped => handled = <<>>

\* C12: stop() discards every message still queued: when it returns the
\* queue is empty.
C12_StopEmptiesQueue ==
  out = <<[k |-> "stopping"]>> => heap = <<>>

\* the resident orders, bids first
allOrders == bids \o asks

\* C13: whatever LIMIT, MARKET, CANCEL and MODIFY messages the exchange has
\* handled, with any integer price and quantity, every resident order has a
\* price above 0 and a quantity above 0.
C13_ResidentPositive ==
  \A i \in 1..Len(allOrders) :
    allOrders[i].price > 0 /\ allOrders[i].qty > 0

\* a LIMIT_ORDER with a price of 0 or less and a quantity above 0 was handled
\* while the book had room for it and held an order
C13_Witness ==
  /\ handled # <<>>
  /\ handled[1].type = "LIMIT_ORDER"
  /\ handled[1].body.price <= 0
  /\ handled[1].body.qty > 0
  /\ Len(allOrders) = 1
  /\ Book = result.pre

\* C14: no two resident orders have the same id, on either side, also after
\* a LIMIT_ORDER whose id is that of a resident order.
C14_OrderIdsUnique ==
  \A i, j \in 1..Len(allOrders) :
    allOrders[i].id = allOrders[j].id => i = j

cancelledSends ==
  SelectSeq(out, LAMBDA e : e.k = "push" /\ e.m.type = "ORDER_CANCELLED")
rejectedSends ==
  SelectSeq(out, LAMBDA e : e.k = "push" /\ e.m.type = "ORDER_REJECTED")
firstWith(seq, id) ==
  CHOOSE i \in 1..Len(seq) :
    seq[i].id = id /\ \A j \in 1..(i - 1) : seq[j].id # id
without(seq, i) == [j \in 1..(Len(seq) - 1) |-> IF j < i THEN seq[j] ELSE seq[j + 1]]
onSide(side, id) == \E i \in 1..Len(side) : side[i].id = id

\* C16: a CANCEL_ORDER naming a resident id takes exactly that order out of
\* the book (the first with the id, bids before asks), leaves every other
\* order and last alone, and sends the sender one ORDER_CANCELLED with the
\* order's side, price and remaining quantity; a CANCEL_ORDER naming an id
\* that is not resident leaves the book alone and sends the sender one
\* ORDER_REJECTED with reason "Unknown order id" and no ORDER_CANCELLED.
C16_CancelRemovesOrRejects ==
  (handled # <<>> /\ handled[1].type = "CANCEL_ORDER") =>
    LET m == handled[1]
        id == m.body.id
        pre == result.pre
    IN IF resident(pre, id)
         THEN LET o == found(pre, id)
              IN /\ bids = IF onSide(pre.bids, id)
                             THEN without(pre.bids, firstWith(pre.bids, id))
                             ELSE pre.bids
                 /\ asks = IF onSide(pre.bids, id) THEN pre.asks
                           ELSE without(pre.asks, firstWith(pre.asks, id))
                 /\ last = pre.last
                 /\ Len(cancelledSends) = 1
                 /\ cancelledSends[1].m.to = m.from
                 /\ cancelledSends[1].m.body =
                      [orderId |-> id, side |-> o.side, price |-> o.price,
                       qty |-> o.qty]
                 /\ rejectedSends = <<>>
         ELSE /\ Book = pre
              /\ cancelledSends = <<>>
              /\ Len(rejectedSends) = 1
              /\ rejectedSends[1].m.to = m.from
              /\ rejectedSends[1].m.body.reason = "Unknown order id"

\* the cancel of an order that an earlier cancel took out of a book of two:
\* rejected, the other order still resident
C16_Witness ==
  /\ handled # <<>>
  /\ handled[1].type = "CANCEL_ORDER"
  /\ result.prev # <<>>
  /\ resident(result.prev[1], handled[1].body.id)
  /\ Len(result.prev[1].bids) + Len(result.prev[1].asks) = 2
  /\ ~resident(result.pre, handled[1].body.id)
  /\ Len(allOrders) = 1
  /\ Len(rejectedSends) = 1

marketData ==
  SelectSeq(out, LAMBDA e : e.k = "push" /\ e.m.type = "MARKET_DATA")
oppositeOf(B, side) == IF side = "BUY" THEN B.asks ELSE B.bids
validPatch(b) ==
  /\ has(b, "price") => b.price > 0
  /\ has(b, "qty") => b.qty >= 0
\* the message changes the book pre: an accepted LIMIT_ORDER, a MARKET_ORDER
\* that fills, a CANCEL_ORDER or a MODIFY_ORDER that succeeds
mutates(m, pre) ==
  CASE m.type = "LIMIT_ORDER" -> m.body.qty > 0 /\ m.body.price > 0
    [] m.type = "MARKET_ORDER" ->
         m.body.qty > 0 /\ oppositeOf(pre, m.body.side) # <<>>
    [] m.type = "CANCEL_ORDER" -> resident(pre, m.body.id)
    [] m.type = "MODIFY_ORDER" ->
         validPatch(m.body) /\ resident(pre, m.body.id)
\* the message fails a validation or names an id that is not resident
turnedDown(m, pre) ==
  CASE m.type = "LIMIT_ORDER" -> m.body.qty <= 0 \/ m.body.price <= 0
    [] m.type = "MARKET_ORDER" -> m.body.qty <= 0
    [] m.type = "CANCEL_ORDER" -> ~resident(pre, m.body.id)
    [] m.type = "MODIFY_ORDER" ->
         ~validPatch(m.body) \/ ~resident(pre, m.body.id)

\* C21: when the exchange has handled a message that changes the book, it
\* has pushed exactly one MARKET_DATA for every registered agent but itself
\* and none for itself, each with the depth-10 snapshot of the book as the
\* message left it; when it has handled a message that fails a validation
\* or names an unknown id, it has pushed no MARKET_DATA.
C21_MarketDataAfterMutation ==
  handled # <<>> =>
    LET m == handled[1]
        snap == snapshot(Book, 10)
    IN /\ mutates(m, result.pre) =>
            /\ \A i \in 1..Len(agents) :
                 Cardinality({j \in 1..Len(marketData) :
                                marketData[j].m.to = agents[i]})
                   = IF agents[i] = exchangeId THEN 0 ELSE 1
            /\ \A j \in 1..Len(marketData) :
                 /\ isAgent(marketData[j].m.to)
                 /\ marketData[j].m.body =
                      [symbol |-> SYMBOL, bids |-> snap.bids,
                       asks |-> snap.asks, last |-> snap.last]
       /\ turnedDown(m, result.pre) => marketData = <<>>

\* a MODIFY_ORDER changed the book and both traders were sent market data
C21_Witness ==
  /\ handled # <<>>
  /\ handled[1].type = "MODIFY_ORDER"
  /\ mutates(handled[1], result.pre)
  /\ Book # result.pre
  /\ Len(marketData) = 2

\* C22: for every pair of agent ids and every TwoStageRpcLatency whose four
\* parameters are non-negative, whatever the jitter draw, delayNs(from, to)
\* is non-negative.
C22_DelayNonNegative ==
  result.op = "delayNs" => result.delay >= 0

\* C23: two runs of the same configuration stamp the same message with the
\* same delay, so that they deliver it at the same virtual time.
C23_ReplaySameDelay ==
  result.op = "replay" => result.again = result.delay

\* C24: the clock changes only in Kernel.tick, by exactly tickMs * 1,000,000
\* ns a tick, so that after one start(startNs) and k ticks it is
\* startNs + k * tickMs * 1,000,000.
C24_ClockAfterTicks ==
  result.op = "clock" => timeNs = result.ticks * result.tickMs * NS_PER_MS

\* C25: every execution placeLimit(o) returns for the incoming order o names
\* as maker the agent of the order that was resting and as taker the agent
\* of o, whether o is a BUY or a SELL.
C25_MakerIsResting ==
  result.op = "placeLimit" =>
    \A i \in 1..Len(result.execs) :
      LET e == result.execs[i]
          bid == result.tops[i].bid
          ask == result.tops[i].ask
          resting == IF bid.id = result.o.id THEN ask ELSE bid
      IN result.o.id \in {bid.id, ask.id} =>
           /\ e.maker = resting.agent
           /\ e.taker = result.o.agent

\* C26: the ts of a resident order is the virtual time at which the exchange
\* processed its LIMIT_ORDER, not a value the sending agent chose: when the
\* exchange has accepted a LIMIT_ORDER that rests unmatched, the one
\* resident order of that id has ts equal to the clock.
C26_TsIsProcessingTime ==
  (/\ handled # <<>>
   /\ handled[1].to = exchangeId
   /\ handled[1].type = "LIMIT_ORDER"
   /\ \E p \in 1..Len(out) : isPush(out[p], {"ORDER_ACCEPTED"})
   /\ result.execs = <<>>
   /\ Cardinality({i \in 1..Len(allOrders) :
                     allOrders[i].id = handled[1].body.id}) = 1)
    => \A i \in 1..Len(allOrders) :
         allOrders[i].id = handled[1].body.id => allOrders[i].ts = timeNs

\* C27: a due message whose recipient id no agent is registered with is
\* taken off the queue and nothing else happens: no handler runs, nothing is
\* pushed or emitted, the clock, the timers, the book and the rest of the
\* queue stay as they are, and the loop of tick goes on.
C27_UnknownRecipientDropped ==
  [][(due /\ ~isAgent(peek(heap)[1].to)) =>
       /\ heap' = pop(heap)[2]
       /\ handled' = <<>>
       /\ \A i \in 1..Len(out') : out'[i].k \notin {"push", "emit"}
       /\ pc' = "tick"
       /\ UNCHANGED <<timeNs, timer, timers, nextMid, logCount, bids, asks,
                      last>>]_vars

\* a message for an unknown id has just been dropped and the next message
\* is due in the same tick
C27_Witness ==
  /\ Len(out) = 1
  /\ out[1].k = "drop"
  /\ ~isAgent(out[1].m.to)
  /\ due

\* C28: after any pushes and pops, the message pop returned has an at no
\* larger than that of any message still queued; peek gives the message
\* pop would return; length is the pushes less the pops that returned a
\* message; and pop of an empty queue returns nothing and leaves it empty.
C28_PopReturnsMinimum ==
  /\ popped # <<>> =>
       \A i \in 1..Len(heap) : popped[1].at <= heap[i].at
  /\ peek(heap) = pop(heap)[1]
  /\ length(heap) = pushes - pops
  /\ heap = <<>> => pop(heap) = <<<<>>, <<>>>>

\* pop returned a message pushed after one with a larger at that is still
\* queued, with at least two messages left
C28_Witness ==
  /\ popped # <<>>
  /\ Len(heap) >= 2
  /\ \E i \in 1..Len(heap) :
       heap[i].mid < popped[1].mid /\ heap[i].at > popped[1].at

\* C29: when the loop of a tick ends, no queued message has an at at or
\* below the clock, the messages handlers queued during the tick included;
\* onTick is called then, once, with the clock, and nowhere else; and
\* messages are delivered only inside the loop, so before onTick.
C29_LoopDrainsThenOnTick ==
  [][/\ (pc = "tick" /\ pc' = "idle") =>
          /\ \A i \in 1..Len(heap) : heap[i].at > timeNs
          /\ heap' = heap
          /\ out' = <<onTick(timeNs)>>
     /\ (\E i \in 1..Len(out') : out'[i].k = "onTick") =>
          (pc = "tick" /\ pc' = "idle")
     /\ handled' # <<>> => (pc = "tick" /\ pc' = "tick")]_vars

\* onTick has been called after the delivery of a message that was queued
\* during the same tick, with later messages still queued
C29_Witness ==
  /\ Len(out) = 1
  /\ out[1].k = "onTick"
  /\ out[1].after # <<>>
  /\ out[1].after[1].sent = timeNs
  /\ heap # <<>>

\* C30: a message for a registered agent is delivered during the first tick
\* whose clock is at or above the message's at, and in no tick whose clock
\* is below it: when a message has been delivered, its at is at most the
\* clock, and the clock of every tick before this one was below its at.
C30_DeliveredInFirstTickFromAt ==
  handled # <<>> =>
    /\ handled[1].at <= timeNs
    /\ \A k \in 1..MaxTicks :
         k * tickNs < timeNs => k * tickNs < handled[1].at

\* C31: a WAKEUP is queued with exactly the at that was asked for, no
\* latency added (start asks for the start time, a wakeup handler for the
\* time recorded in its call); deliver calls the wakeup handler, and no
\* other, for a WAKEUP and the receive handler, and no other, for any other
\* message, each with the current clock.
C31_WakeupAtAsIsHandlerByType ==
  /\ \A p \in 1..Len(out) :
       isPush(out[p], {"WAKEUP"}) =>
         /\ out[p].m.from = 0 - 1
         /\ IF handled = <<>> THEN out[p].m.at = out[p].m.sent
            ELSE /\ handled[1].handler = "wakeup"
                 /\ handled[1].asked = <<out[p].m.at>>
  /\ handled # <<>> =>
       /\ handled[1].handler =
            (IF handled[1].type = "WAKEUP" THEN "wakeup" ELSE "receive")
       /\ handled[1].t = timeNs
       /\ handled[1].asked # <<>> =>
            \E p \in 1..Len(out) : isPush(out[p], {"WAKEUP"})

\* a wakeup handler has asked for a wake-up one tick ahead, under a latency
\* model whose delays are all above 0, and the WAKEUP is queued
C31_Witness ==
  /\ handled # <<>>
  /\ handled[1].handler = "wakeup"
  /\ handled[1].asked = <<timeNs + tickNs>>
  /\ latencyDelayNs(0 - 1, handled[1].to) > 0
  /\ \E i \in 1..Len(heap) :
       heap[i].type = "WAKEUP" /\ heap[i].at = timeNs + tickNs

\* C32: a message the exchange answers with ORDER_REJECTED, whatever the
\* reason, and a QUERY_SPREAD or QUERY_LAST, leaves the book as it was: the
\* same orders with the same price, qty and ts in the same places on both
\* sides, and the same last.
C32_RejectedLeavesBook ==
  [][(/\ handled' # <<>>
      /\ handled'[1].to = exchangeId
      /\ handled'[1].handler = "receive"
      /\ \/ \E p \in 1..Len(out') : isPush(out'[p], {"ORDER_REJECTED"})
         \/ handled'[1].type \in {"QUERY_SPREAD", "QUERY_LAST"})
       => UNCHANGED <<bids, asks, last>>]_vars

\* a MARKET_ORDER has been rejected for want of liquidity while an order of
\* the sender rests on its own side of the book
C32_Witness ==
  /\ handled # <<>>
  /\ handled[1].type = "MARKET_ORDER"
  /\ Len(rejectedSends) = 1
  /\ rejectedSends[1].m.body.reason = "No liquidity"
  /\ allOrders # <<>>
  /\ allOrders[1].agent = handled[1].from
  /\ allOrders[1].side = handled[1].body.side

\* C33: after every placeLimit, placeMarket, cancel and modify the bids are
\* in order of falling price and, at one price, of rising ts, and the asks
\* in order of rising price and, at one price, of rising ts; the first order
\* of a side is then the best of it in price-time priority.
C33_SidesInPriceTimeOrder ==
  /\ inPriority(bids, TRUE)
  /\ inPriority(asks, FALSE)
  /\ \A i \in 1..Len(bids) : ~bidBefore(bids[i], bids[1])
  /\ \A i \in 1..Len(asks) : ~askBefore(asks[i], asks[1])

\* modify has given the second of two bids a better price, a later ts, and
\* the first place
C33_Witness ==
  /\ result.op = "modify"
  /\ Len(result.pre.bids) = 2
  /\ result.pre.bids[2].id = result.id
  /\ Len(bids) = 2
  /\ bids[1].id = result.id
  /\ bids[1].price > bids[2].price
  /\ bids[1].ts > bids[2].ts

\* C34: when the incoming limit order of placeLimit is matched with a resting
\* order, the execution has the incoming order's price if the incoming ts is
\* strictly earlier than the resting order's ts, and the resting order's
\* price otherwise, equal ts included.
C34_IncomingPriceOnlyIfEarlier ==
  result.op = "placeLimit" =>
    \A i \in 1..Len(result.execs) :
      LET bid == result.tops[i].bid
          ask == result.tops[i].ask
          incoming == IF bid.id = result.o.id THEN bid ELSE ask
          resting == IF bid.id = result.o.id THEN ask ELSE bid
      IN result.o.id \in {bid.id, ask.id} =>
           result.execs[i].price =
             (IF incoming.ts < resting.ts THEN incoming.price
              ELSE resting.price)

\* C35: in any book reached by placeLimit, placeMarket, cancel and modify,
\* every execution placeLimit(o) returns has o as one of its two matched
\* orders, so that none pairs two orders that were both resident before the
\* call, and when it returns o is filled or does not cross the best order
\* of the opposite side.
C35_ExecutionsInvolveIncoming ==
  result.op = "placeLimit" =>
    /\ \A i \in 1..Len(result.execs) :
         result.o.id \in {result.tops[i].bid.id, result.tops[i].ask.id}
    /\ resident(Book, result.o.id) =>
         LET opp == oppositeOf(Book, result.o.side)
         IN opp # <<>> =>
              IF result.o.side = "BUY" THEN result.o.price < opp[1].price
              ELSE result.o.price > opp[1].price

\* C36: when an agent has sent a LIMIT_ORDER for an id and then, at the same
\* virtual time, a CANCEL_ORDER or MODIFY_ORDER for that id, so that both
\* have the same at, the exchange handles the LIMIT_ORDER first, whatever
\* else is queued: when it handles the cancel or modify, the LIMIT_ORDER is
\* no longer waiting in the queue.
C36_LimitBeforeItsCancel ==
  (/\ handled # <<>>
   /\ handled[1].to = exchangeId
   /\ handled[1].type \in {"CANCEL_ORDER", "MODIFY_ORDER"}
   /\ has(handled[1].body, "id")) =>
    \A i \in 1..Len(heap) :
      ~(/\ heap[i].type = "LIMIT_ORDER"
        /\ heap[i].to = exchangeId
        /\ heap[i].from = handled[1].from
        /\ heap[i].body.id = handled[1].body.id
        /\ heap[i].at = handled[1].at
        /\ heap[i].mid < handled[1].mid)

acceptedSends ==
  SelectSeq(out, LAMBDA e : e.k = "push" /\ e.m.type = "ORDER_ACCEPTED")
pushesTo(a) == SelectSeq(out, LAMBDA e : e.k = "push" /\ e.m.to = a)
\* m is a CANCEL_ORDER or a valid MODIFY_ORDER naming the one resident order
\* of its id in the book pre, and that order is another agent's
foreign(m, pre) ==
  /\ m.type \in {"CANCEL_ORDER", "MODIFY_ORDER"}
  /\ m.type = "MODIFY_ORDER" => validPatch(m.body)
  /\ Cardinality({i \in 1..Len(pre.bids \o pre.asks) :
                    (pre.bids \o pre.asks)[i].id = m.body.id}) = 1
  /\ found(pre, m.body.id).agent # m.from
\* the exchange did to the order what m asks and answered the sender of m
servedSender(m, pre) ==
  IF m.type = "CANCEL_ORDER"
    THEN /\ ~resident(Book, m.body.id)
         /\ Len(allOrders) = Len(pre.bids) + Len(pre.asks) - 1
         /\ Len(cancelledSends) = 1
         /\ cancelledSends[1].m.to = m.from
         /\ acceptedSends = <<>>
    ELSE /\ Len(acceptedSends) = 1
         /\ acceptedSends[1].m.to = m.from
         /\ cancelledSends = <<>>
         /\ Len(allOrders) <= Len(pre.bids) + Len(pre.asks)
         /\ IF has(m.body, "qty") /\ m.body.qty = 0
              THEN ~resident(Book, m.body.id)
            ELSE /\ resident(Book, m.body.id)
                 /\ found(Book, m.body.id).agent = found(pre, m.body.id).agent
                 /\ has(m.body, "price") =>
                      found(Book, m.body.id).price = m.body.price
                 /\ has(m.body, "qty") =>
                      found(Book, m.body.id).qty = m.body.qty

\* C37 (as stated): a CANCEL_ORDER or MODIFY_ORDER naming a resident order of
\* another agent is carried out, the ORDER_CANCELLED or ORDER_ACCEPTED goes
\* to the sender of the message, and the order's owner receives no message.
C37_OwnerReceivesNothing ==
  (handled # <<>> /\ foreign(handled[1], result.pre)) =>
    /\ servedSender(handled[1], result.pre)
    /\ rejectedSends = <<>>
    /\ pushesTo(found(result.pre, handled[1].body.id).agent) = <<>>

\* C37 (amended): such a message is carried out, the ORDER_CANCELLED or
\* ORDER_ACCEPTED goes to the sender of the message, and the order's owner
\* receives nothing but the one MARKET_DATA that every agent is sent.
C37_OwnerReceivesMarketDataOnly ==
  (handled # <<>> /\ foreign(handled[1], result.pre)) =>
    LET owner == found(result.pre, handled[1].body.id).agent
    IN /\ servedSender(handled[1], result.pre)
       /\ rejectedSends = <<>>
       /\ Len(pushesTo(owner)) = 1
       /\ pushesTo(owner)[1].m.type = "MARKET_DATA"
       /\ \A a \in Traders :
            Len(SelectSeq(pushesTo(a),
                          LAMBDA e : e.m.type = "MARKET_DATA")) = 1

\* a trader has cancelled the other trader's order, one of two in the book
C37_Witness ==
  /\ handled # <<>>
  /\ handled[1].type = "CANCEL_ORDER"
  /\ foreign(handled[1], result.pre)
  /\ Len(result.pre.bids) + Len(result.pre.asks) = 2
  /\ Len(allOrders) = 1
  /\ allOrders[1].agent = handled[1].from
  /\ Len(cancelledSends) = 1

\* the ORDER_LOG events emitted so far for the message m
logsOf(m) == logCount[m.mid + 1]
\* the exchange answered the message it has just handled with this type
answeredWith(type) == \E p \in 1..Len(out) : isPush(out[p], {type})

\* C38: a LIMIT_ORDER or MARKET_ORDER sent through the kernel gives exactly
\* one ORDER_LOG event, at send time, and none when the exchange handles it;
\* a CANCEL_ORDER or MODIFY_ORDER gives one at send time and, when the
\* exchange carries it out, a second one then, two in all; a cancel or
\* modify the exchange rejects gives exactly one.
C38_OrderLogCounts ==
  /\ \A i \in 1..Len(heap) : heap[i].type \in OrderTypes => logsOf(heap[i]) = 1
  /\ \A p \in 1..Len(out) :
       isPush(out[p], OrderTypes) => logsOf(out[p].m) = 1
  /\ (handled # <<>> /\ handled[1].to = exchangeId) =>
       LET m == handled[1]
       IN /\ m.type \in {"LIMIT_ORDER", "MARKET_ORDER"} => logsOf(m) = 1
          /\ m.type = "CANCEL_ORDER" =>
               /\ answeredWith("ORDER_CANCELLED") # answeredWith("ORDER_REJECTED")
               /\ logsOf(m) = IF answeredWith("ORDER_CANCELLED") THEN 2 ELSE 1
          /\ m.type = "MODIFY_ORDER" =>
               /\ answeredWith("ORDER_ACCEPTED") # answeredWith("ORDER_REJECTED")
               /\ logsOf(m) = IF answeredWith("ORDER_ACCEPTED") THEN 2 ELSE 1

\* the exchange has carried out a CANCEL_ORDER: two ORDER_LOG events for it,
\* after the one ORDER_LOG event of the LIMIT_ORDER it cancels
C38_Witness ==
  /\ handled # <<>>
  /\ handled[1].to = exchangeId
  /\ handled[1].type = "CANCEL_ORDER"
  /\ answeredWith("ORDER_CANCELLED")
  /\ logsOf(handled[1]) = 2
  /\ \E i \in 1..Len(logCount) : i # handled[1].mid + 1 /\ logCount[i] = 1

qtyOfId(B, id) ==
  totalQty(SelectSeq(B.bids \o B.asks, LAMBDA o : o.id = id))
\* the quantity the executions took from the order of an id
takenFrom(execs, id) ==
  totalQty(SelectSeq(execs,
             LAMBDA e : e.makerOrderId = id
                          \/ ("takerOrderId" \in DOMAIN e
                                /\ e.takerOrderId = id)))

\* C40: every execution of match takes its quantity, the smaller of the two
\* matched orders' quantities, from exactly one bid and one ask, and every
\* execution of placeMarket from exactly one resting order of the opposite
\* side: an order is left with what it had less what its executions took.
\* placeLimit, placeMarket and cancel raise no order's quantity.  The filled
\* of placeMarket is the total of its executions and the fall of the
\* quantity resting on the opposite side.
C40_QuantityConserved ==
  /\ result.op = "placeLimit" =>
       LET withO == [result.pre EXCEPT !.bids = @ \o <<result.o>>]
       IN /\ \A i \in 1..Len(result.execs) :
               LET e == result.execs[i]
                   t == result.tops[i]
               IN /\ e.qty = Min(t.bid.qty, t.ask.qty)
                  /\ e.qty > 0
                  /\ e.takerOrderId = t.bid.id
                  /\ e.makerOrderId = t.ask.id
                  /\ t.bid.id # t.ask.id
          /\ \A id \in BookIds :
               qtyOfId(Book, id)
                 = qtyOfId(withO, id) - takenFrom(result.execs, id)
          /\ totalQty(allOrders)
               = totalQty(result.pre.bids \o result.pre.asks) + result.o.qty
                   - 2 * totalQty(result.execs)
  /\ result.op = "placeMarket" =>
       LET opp == oppositeOf(result.pre, result.side)
       IN /\ result.filled = totalQty(result.execs)
          /\ result.filled
               = totalQty(opp) - totalQty(oppositeOf(Book, result.side))
          /\ oppositeOf(Book, otherSide(result.side))
               = oppositeOf(result.pre, otherSide(result.side))
          /\ \A i \in 1..Len(result.execs) : result.execs[i].qty > 0
          /\ \A id \in BookIds :
               qtyOfId(Book, id)
                 = qtyOfId(result.pre, id) - takenFrom(result.execs, id)
  /\ result.op = "cancel" =>
       \A id \in BookIds : qtyOfId(Book, id) <= qtyOfId(result.pre, id)

\* placeLimit has returned two executions of a buy order against two asks,
\* one taken whole and one in part
C40_Witness ==
  /\ result.op = "placeLimit"
  /\ result.o.side = "BUY"
  /\ Len(result.execs) = 2
  /\ result.execs[1].makerOrderId # result.execs[2].makerOrderId
  /\ result.execs[1].takerOrderId = result.o.id
  /\ result.execs[2].takerOrderId = result.o.id
  /\ Len(asks) = 1
  /\ qtyOfId(Book, result.execs[2].makerOrderId) > 0
  /\ bids = <<>>

=============================================================================
